---------------------------- MODULE Spec2Model ----------------------------
(***************************************************************************)
(* Model of the search pipeline of the registry MCP server                 *)
(* (internal/mcp/tools.go): the paginated fetch loop of searchServers, the *)
(* client-side filters (applyFilters / matchesAllFilters) and the sort     *)
(* stage (applySorting); and of the similarity tools (findAlternatives,    *)
(* findSimilarServers, analyzeToolOverlap, compareServers) with their      *)
(* scoring functions; of getEcosystemInsights and extractToolHiveMetadata; *)
(* and of two searchServers calls running at once on one Server.           *)
(*                                                                         *)
(* Go strings that the code inspects (names, tags, tool names, ...) are    *)
(* sequences of byte values, so that strings.ToLower, strings.Contains,    *)
(* strings.EqualFold and the < of the name sort are computed on their     *)
(* characters.  Cursors and sort keys are only compared for equality and   *)
(* are TLA+ strings.                                                       *)
(***************************************************************************)
EXTENDS Integers, Sequences, FiniteSets, TLC

(***************************************************************************)
(* Bounds of the model.                                                    *)
(***************************************************************************)
\* length of the entry lists the pure stages are applied to (SpecFn)
MaxListLen == 3
\* calls of one client iteration (first call plus continuations)
MaxCalls == 3
\* entries per page of the large catalog (SpecLarge)
LargePageSize == 600
\* length of the short listings the similarity tools are applied to (SpecSim)
MaxListingLen == 2

(***************************************************************************)
(* Program constants.                                                      *)
(***************************************************************************)
\* timeout := 25 * time.Second
Timeout == 25
\* targetLimit = 20 when the caller omits the limit
DefaultLimit == 20
\* targetLimit = 1000, the safety cap
MaxLimit == 1000

(***************************************************************************)
(* Strings: sequences of bytes.                                            *)
(***************************************************************************)
Range(s) == {s[i] : i \in DOMAIN s}

\* unicode.ToLower restricted to ASCII: 'A'..'Z' -> 'a'..'z'
ToLowerByte(c) == IF c >= 65 /\ c <= 90 THEN c + 32 ELSE c

\* strings.ToLower
ToLower(s) == [i \in DOMAIN s |-> ToLowerByte(s[i])]

\* strings.Contains(s, sub): sub occurs in s as a contiguous run
Contains(s, sub) ==
    \E off \in 0..(Len(s) - Len(sub)) :
        \A i \in 1..Len(sub) : s[off + i] = sub[i]

\* strings.EqualFold on ASCII text
EqualFold(a, b) == ToLower(a) = ToLower(b)

\* a < b on Go strings: bytewise lexicographic order
StrLess(a, b) ==
    \E k \in 1..(Len(a) + 1) :
        /\ k <= Len(b)
        /\ \A i \in 1..(k - 1) : a[i] = b[i]
        /\ (k = Len(a) + 1 \/ a[k] < b[k])

(***************************************************************************)
(* Catalog entries (upstreamv0.ServerJSON).  meta is the list of package   *)
(* blocks of _meta.publisherProvided that are maps; a block holds the      *)
(* optional fields the extractors read (an absent field is the empty       *)
(* sequence, a present one a one-element sequence).  lastUpdated is the    *)
(* metadata.last_updated timestamp, a string that orders as its time.      *)
(***************************************************************************)
NoBlock ==
    [stars |-> <<>>, pulls |-> <<>>, tags |-> <<>>, tools |-> <<>>,
     tier |-> <<>>, status |-> <<>>, lastUpdated |-> <<>>]

ServerTable ==
    << \* 1: "pg"
       [name |-> <<112, 103>>,
        description |-> <<115, 113, 108, 32, 100, 98>>,            \* "sql db"
        packages |-> << [registryType |-> <<110, 112, 109>>,       \* "npm"
                         transport |-> <<115, 116, 100, 105, 111>>] >>, \* "stdio"
        meta |-> << [stars |-> <<9>>, pulls |-> <<3>>,
                     tags |-> << <<100, 98>>, <<115, 113, 108>> >>,   \* "db","sql"
                     tools |-> << <<113, 117, 101, 114, 121>>,        \* "query"
                                  <<101, 120, 101, 99>> >>,           \* "exec"
                     tier |-> << <<79, 102, 102, 105, 99, 105, 97, 108>> >>, \* "Official"
                     status |-> << <<65, 99, 116, 105, 118, 101>> >>,       \* "Active"
                     lastUpdated |-> << <<50, 48, 50, 52>> >>] >>],         \* "2024"
       \* 2: "My"
       [name |-> <<77, 121>>,
        description |-> <<68, 66>>,                                 \* "DB"
        packages |-> << [registryType |-> <<112, 121, 112, 105>>,   \* "pypi"
                         transport |-> <<72, 84, 84, 80>>] >>,      \* "HTTP"
        meta |-> << [stars |-> <<9>>, pulls |-> <<>>,
                     tags |-> << <<68, 66>> >>,                       \* "DB"
                     tools |-> << <<81, 117, 101, 114, 121>> >>,      \* "Query"
                     tier |-> << <<111, 102, 102, 105, 99, 105, 97, 108>> >>, \* "official"
                     status |-> << <<97, 99, 116, 105, 118, 101>> >>,       \* "active"
                     lastUpdated |-> << <<50, 48, 50, 53>> >>] >>],         \* "2025"
       \* 3: "fs"
       [name |-> <<102, 115>>,
        description |-> <<102, 105, 108, 101, 115>>,                \* "files"
        packages |-> << [registryType |-> <<100, 111, 99, 107, 101, 114>>, \* "docker"
                         transport |-> <<115, 116, 100, 105, 111>>],       \* "stdio"
                        [registryType |-> <<110, 112, 109>>,               \* "npm"
                         transport |-> <<115, 115, 101>>] >>,              \* "sse"
        meta |-> << [stars |-> <<2>>, pulls |-> <<7>>,
                     tags |-> << <<102, 105, 108, 101, 115>> >>,      \* "files"
                     tools |-> << <<114, 101, 97, 100>> >>,           \* "read"
                     tier |-> << <<67, 111, 109, 109, 117, 110, 105, 116, 121>> >>, \* "Community"
                     status |-> << <<68, 101, 112, 114, 101, 99, 97, 116, 101, 100>> >>, \* "Deprecated"
                     lastUpdated |-> <<>>] >>],
       \* 4: "a", no publisher metadata, no packages
       [name |-> <<97>>,
        description |-> <<>>,
        packages |-> <<>>,
        meta |-> <<>>],
       \* 5: "pgx", metadata without metrics, tier or status; a package of a
       \* kind detectRuntime does not know, with a runtime hint
       [name |-> <<112, 103, 120>>,
        description |-> <<>>,
        packages |-> << [registryType |-> <<111, 99, 105>>,        \* "oci"
                         runtimeHint |-> <<100, 111, 99, 107, 101, 114>>, \* "docker"
                         transport |-> <<104, 116, 116, 112>>] >>,  \* "http"
        meta |-> << [stars |-> <<>>, pulls |-> <<3>>,
                     tags |-> << <<115, 113, 108>>, <<100, 98>> >>,   \* "sql","db"
                     tools |-> << <<115, 117, 98, 113, 117, 101, 114, 121>> >>, \* "subquery"
                     tier |-> <<>>,
                     status |-> <<>>,
                     lastUpdated |-> << <<50, 48, 50, 51>> >>] >>],         \* "2023"
       \* 6: "dbx", tag and tool lists that repeat a value in another case
       [name |-> <<100, 98, 120>>,
        description |-> <<115, 113, 108, 32, 100, 97, 116, 97, 98, 97, 115, 101>>, \* "sql database"
        packages |-> << [registryType |-> <<110, 112, 109>>,       \* "npm"
                         transport |-> <<83, 116, 100, 105, 111>>] >>, \* "Stdio"
        meta |-> << [stars |-> <<4>>, pulls |-> <<>>,
                     tags |-> << <<100, 98>>, <<68, 66>> >>,          \* "db","DB"
                     tools |-> << <<113, 117, 101, 114, 121>>,        \* "query"
                                  <<81, 117, 101, 114, 121>> >>,      \* "Query"
                     tier |-> <<>>,
                     status |-> <<>>,
                     lastUpdated |-> <<>>] >>],
       \* 7: "dw", a description with words longer than three characters, a
       \* package of a kind detectRuntime does not know and no runtime hint
       [name |-> <<100, 119>>,
        description |-> <<68, 97, 116, 97, 98, 97, 115, 101, 32, 32,
                          102, 105, 108, 101, 115, 32, 100, 98>>,  \* "Database  files db"
        packages |-> << [registryType |-> <<109, 99, 112, 98>>,    \* "mcpb"
                         transport |-> <<115, 115, 101>>] >>,      \* "sse"
        meta |-> <<>>]
    >>

NumServers == Len(ServerTable)

\* The entry a ServerResponse carries.  An entry list holds identifiers;
\* identifier id stands for one catalog entry, whose content is a row of
\* ServerTable (the large catalog repeats the rows).
Server(id) == ServerTable[((id - 1) % NumServers) + 1]

(***************************************************************************)
(* Metadata extraction helpers.                                            *)
(***************************************************************************)
\* an entry with two package blocks under its provider namespaces
MultiBlockServer ==
    [name |-> <<109, 98>>,                                            \* "mb"
     description |-> <<>>,
     packages |-> <<>>,
     meta |-> << [NoBlock EXCEPT !.stars = <<9>>,
                                 !.tags = << <<100, 98>> >>,          \* "db"
                                 !.tools = << <<113, 117, 101, 114, 121>> >>], \* "query"
                 [NoBlock EXCEPT !.stars = <<2>>,
                                 !.tags = << <<102, 105, 108, 101, 115>> >>, \* "files"
                                 !.tools = << <<114, 101, 97, 100>> >>] >>]  \* "read"

\* the blocks one call of extractToolHiveMetadata can return: it returns
\* from inside two nested `for ... range` over Go maps, whose iteration
\* order is not specified and differs from one iteration to the next, so
\* with several blocks any of them can be the first one found
metadataBlocks(server) ==
    IF Len(server.meta) = 0 THEN {NoBlock} ELSE Range(server.meta)

\* the first package block found, or the empty map; the entries of
\* ServerTable carry at most one block
extractToolHiveMetadata(server) ==
    IF Len(server.meta) = 0 THEN NoBlock ELSE server.meta[1]

extractStars(server) ==
    LET thMeta == extractToolHiveMetadata(server)
    IN  IF Len(thMeta.stars) = 1 THEN thMeta.stars[1] ELSE 0

extractPulls(server) ==
    LET thMeta == extractToolHiveMetadata(server)
    IN  IF Len(thMeta.pulls) = 1 THEN thMeta.pulls[1] ELSE 0

extractTools(server) == extractToolHiveMetadata(server).tools

extractTags(server) == extractToolHiveMetadata(server).tags

\* metadata.last_updated, "" when absent
extractLastUpdated(server) ==
    LET thMeta == extractToolHiveMetadata(server)
    IN  IF Len(thMeta.lastUpdated) = 1 THEN thMeta.lastUpdated[1] ELSE <<>>

(***************************************************************************)
(* Search parameters (SearchServersParams).  VersionFilter is only copied  *)
(* into the page request and is left out.                                  *)
(***************************************************************************)
NoParams ==
    [Query |-> <<>>, Name |-> <<>>, Tags |-> <<>>, Tools |-> <<>>,
     Transport |-> <<>>, RegistryType |-> <<>>, MinStars |-> 0, MinPulls |-> 0,
     Tier |-> <<>>, Status |-> <<>>, Cursor |-> "", Limit |-> 0, SortBy |-> ""]

(***************************************************************************)
(* Client-side filters.                                                    *)
(***************************************************************************)
matchesNameFilter(server, nameFilter) ==
    IF nameFilter = <<>> THEN TRUE
    ELSE Contains(ToLower(server.name), ToLower(nameFilter))

matchesQueryFilter(server, query) ==
    IF query = <<>> THEN TRUE
    ELSE LET queryLower == ToLower(query)
             tools == extractTools(server)
         IN  \/ Contains(ToLower(server.name), queryLower)
             \/ Contains(ToLower(server.description), queryLower)
             \/ \E i \in DOMAIN tools : Contains(ToLower(tools[i]), queryLower)

hasTag(tags, targetTag) ==
    \E i \in DOMAIN tags : EqualFold(tags[i], targetTag)

\* variant: one of the required tags is enough
matchesTagsFilter_Any(server, requiredTags) ==
    IF Len(requiredTags) = 0 THEN TRUE
    ELSE LET serverTags == extractTags(server)
         IN  \E i \in DOMAIN requiredTags : hasTag(serverTags, requiredTags[i])

matchesTagsFilter(server, requiredTags) ==
    IF Len(requiredTags) = 0 THEN TRUE
    ELSE LET serverTags == extractTags(server)
         IN  \A i \in DOMAIN requiredTags : hasTag(serverTags, requiredTags[i])

hasTool(tools, targetTool) ==
    LET targetLower == ToLower(targetTool)
    IN  \E i \in DOMAIN tools : Contains(ToLower(tools[i]), targetLower)

matchesToolsFilter(server, requiredTools) ==
    IF Len(requiredTools) = 0 THEN TRUE
    ELSE LET serverTools == extractTools(server)
         IN  \A i \in DOMAIN requiredTools : hasTool(serverTools, requiredTools[i])

matchesTransportFilter(server, transport) ==
    IF transport = <<>> THEN TRUE
    ELSE \E i \in DOMAIN server.packages :
             EqualFold(server.packages[i].transport, transport)

matchesRegistryTypeFilter(server, registryType) ==
    IF registryType = <<>> THEN TRUE
    ELSE \E i \in DOMAIN server.packages :
             EqualFold(server.packages[i].registryType, registryType)

matchesStarsFilter(server, minStars) ==
    IF minStars <= 0 THEN TRUE ELSE extractStars(server) >= minStars

matchesPullsFilter(server, minPulls) ==
    IF minPulls <= 0 THEN TRUE ELSE extractPulls(server) >= minPulls

\* thMeta["tier"].(string) is "" when the field is absent
matchesTierFilter(server, tier) ==
    IF tier = <<>> THEN TRUE
    ELSE LET thMeta == extractToolHiveMetadata(server)
             serverTier == IF Len(thMeta.tier) = 1 THEN thMeta.tier[1] ELSE <<>>
         IN  EqualFold(serverTier, tier)

matchesStatusFilter(server, status) ==
    IF status = <<>> THEN TRUE
    ELSE LET thMeta == extractToolHiveMetadata(server)
             serverStatus == IF Len(thMeta.status) = 1 THEN thMeta.status[1] ELSE <<>>
         IN  EqualFold(serverStatus, status)

matchesAllFilters(server, params) ==
    /\ matchesNameFilter(server, params.Name)
    /\ matchesQueryFilter(server, params.Query)
    /\ matchesTagsFilter(server, params.Tags)
    /\ matchesToolsFilter(server, params.Tools)
    /\ matchesTransportFilter(server, params.Transport)
    /\ matchesRegistryTypeFilter(server, params.RegistryType)
    /\ matchesStarsFilter(server, params.MinStars)
    /\ matchesPullsFilter(server, params.MinPulls)
    /\ matchesTierFilter(server, params.Tier)
    /\ matchesStatusFilter(server, params.Status)

\* for _, serverResp := range servers { if matches { filtered = append(...) } }
applyFilters(servers, params) ==
    SelectSeq(servers, LAMBDA id : matchesAllFilters(Server(id), params))

(***************************************************************************)
(* sort.Slice(data, less): the pattern-defeating quicksort of package      *)
(* sort, on positions 1..Len(data).  A range of at most 12 elements is     *)
(* sorted by insertion sort.  A longer range is left alone when the median *)
(* of three probes and a scan find it ordered already; otherwise it is     *)
(* partitioned around the median of three, the pivot first being swapped   *)
(* to the front of the range, and both sides are sorted in turn.  Ranges   *)
(* of 50 elements or more and the pattern-breaking pass after an           *)
(* unbalanced partition are outside the model: Unmodelled has no value,    *)
(* so an evaluation that needs one stops.  less is the comparator as a      *)
(* function on pairs of elements.                                          *)
(***************************************************************************)
swap(s, i, j) == [s EXCEPT ![i] = s[j], ![j] = s[i]]

\* the longest range sorted by insertion sort alone
maxInsertion == 12

Unmodelled(s) == CHOOSE x \in {} : x = s

sortSlice(data, less) ==
    LET RECURSIVE insertDown(_, _, _)
        \* for j := i; j > a && less(j, j-1); j-- { swap(j, j-1) }
        insertDown(s, a, j) ==
            IF j > a /\ less[s[j], s[j - 1]]
            THEN insertDown(swap(s, j, j - 1), a, j - 1)
            ELSE s
        RECURSIVE insertionSort(_, _, _, _)
        \* insertionSort_func: for i := a + 1; i < b; i++ { ... }
        insertionSort(s, a, b, i) ==
            IF i > b THEN s
            ELSE insertionSort(insertDown(s, a, i), a, b, i + 1)
        \* order2_func: x, y ordered by their elements, and the swap count
        order2(s, x, y, n) ==
            IF less[s[y], s[x]] THEN <<y, x, n + 1>> ELSE <<x, y, n>>
        \* median_func: position of the median of three, and the swap count
        median(s, x, y, z) ==
            LET o1 == order2(s, x, y, 0)
                o2 == order2(s, o1[2], z, o1[3])
                o3 == order2(s, o1[1], o2[1], o2[3])
            IN  <<o3[2], o3[3]>>
        \* choosePivot_func for 8 <= length < 50
        choosePivot(s, a, b) ==
            LET q == (b - a + 1) \div 4
            IN  median(s, a + q, a + 2 * q, a + 3 * q)
        \* partialInsertionSort_func for length < 50: true iff ordered
        ordered(s, a, b) == \A i \in (a + 1)..b : ~less[s[i], s[i - 1]]
        RECURSIVE scanUp(_, _, _, _)
        \* for i <= j && less(data[i], data[a]) { i++ }
        scanUp(s, a, i, j) ==
            IF i <= j /\ less[s[i], s[a]] THEN scanUp(s, a, i + 1, j) ELSE i
        RECURSIVE scanDown(_, _, _, _)
        \* for i <= j && !less(data[j], data[a]) { j-- }
        scanDown(s, a, i, j) ==
            IF i <= j /\ ~less[s[j], s[a]] THEN scanDown(s, a, i, j - 1) ELSE j
        RECURSIVE partitionLoop(_, _, _, _)
        partitionLoop(s, a, i0, j0) ==
            LET i == scanUp(s, a, i0, j0)
                j == scanDown(s, a, i, j0)
            IN  IF i > j THEN [s |-> swap(s, j, a), mid |-> j]
                ELSE partitionLoop(swap(s, i, j), a, i + 1, j - 1)
        \* partition_func
        partition(s0, a, b, pivot) ==
            LET s == swap(s0, a, pivot)
                i == scanUp(s, a, a + 1, b)
                j == scanDown(s, a, i, b)
            IN  IF i > j
                THEN [s |-> swap(s, j, a), mid |-> j, already |-> TRUE]
                ELSE LET r == partitionLoop(swap(s, i, j), a, i + 1, j - 1)
                     IN  [s |-> r.s, mid |-> r.mid, already |-> FALSE]
        RECURSIVE skipEqualUp(_, _, _, _)
        \* for i <= j && !less(data[a], data[i]) { i++ }
        skipEqualUp(s, a, i, j) ==
            IF i <= j /\ ~less[s[a], s[i]] THEN skipEqualUp(s, a, i + 1, j) ELSE i
        RECURSIVE skipGreaterDown(_, _, _, _)
        \* for i <= j && less(data[a], data[j]) { j-- }
        skipGreaterDown(s, a, i, j) ==
            IF i <= j /\ less[s[a], s[j]] THEN skipGreaterDown(s, a, i, j - 1)
            ELSE j
        RECURSIVE partitionEqualLoop(_, _, _, _)
        partitionEqualLoop(s, a, i0, j0) ==
            LET i == skipEqualUp(s, a, i0, j0)
                j == skipGreaterDown(s, a, i, j0)
            IN  IF i > j THEN [s |-> s, mid |-> i]
                ELSE partitionEqualLoop(swap(s, i, j), a, i + 1, j - 1)
        \* partitionEqual_func
        partitionEqual(s, a, b, pivot) ==
            partitionEqualLoop(swap(s, a, pivot), a, a + 1, b)
        RECURSIVE pdqsort(_, _, _, _, _)
        \* pdqsort_func on the range a..b
        pdqsort(s, a, b, wasBalanced, wasPartitioned) ==
            LET length == b - a + 1
            IN  IF length <= maxInsertion THEN insertionSort(s, a, b, a + 1)
                ELSE IF ~wasBalanced \/ length >= 50 THEN Unmodelled(s)
                ELSE
                LET cp == choosePivot(s, a, b)
                    pivot == cp[1]
                    increasingHint == cp[2] = 0
                IN  IF wasPartitioned /\ increasingHint /\ ordered(s, a, b)
                    THEN s
                    ELSE IF a > 1 /\ ~less[s[a - 1], s[pivot]]
                    THEN LET pe == partitionEqual(s, a, b, pivot)
                         IN  pdqsort(pe.s, pe.mid, b, wasBalanced, wasPartitioned)
                    ELSE
                    LET pt == partition(s, a, b, pivot)
                        leftLen == pt.mid - a
                        rightLen == b - pt.mid
                        balanceThreshold == length \div 8
                    IN  IF leftLen < rightLen
                        THEN pdqsort(pdqsort(pt.s, a, pt.mid - 1, TRUE, TRUE),
                                     pt.mid + 1, b,
                                     leftLen >= balanceThreshold, pt.already)
                        ELSE pdqsort(pdqsort(pt.s, pt.mid + 1, b, TRUE, TRUE),
                                     a, pt.mid - 1,
                                     rightLen >= balanceThreshold, pt.already)
    IN  pdqsort(data, 1, Len(data), TRUE, TRUE)

(***************************************************************************)
(* Sort stage.                                                             *)
(***************************************************************************)
\* variant: pulls compared the wrong way round
sortLess_PullsAscending(sortBy, a, b) ==
    CASE sortBy = "stars" -> extractStars(Server(a)) > extractStars(Server(b))
      [] sortBy = "pulls" -> extractPulls(Server(a)) < extractPulls(Server(b))
      [] sortBy = "name" -> StrLess(Server(a).name, Server(b).name)
      [] OTHER -> FALSE

\* the less function handed to sort.Slice, on entries a and b
sortLess(sortBy, a, b) ==
    CASE sortBy = "stars" -> extractStars(Server(a)) > extractStars(Server(b))
      [] sortBy = "pulls" -> extractPulls(Server(a)) > extractPulls(Server(b))
      [] sortBy = "name" -> StrLess(Server(a).name, Server(b).name)
      [] OTHER -> FALSE

applySorting(servers, sortBy) ==
    IF sortBy = "" THEN servers
    ELSE IF sortBy \in {"stars", "pulls", "name", "updated_at"}
         THEN sortSlice(servers, [a \in Range(servers), b \in Range(servers)
                                      |-> sortLess(sortBy, a, b)])
         ELSE servers

(***************************************************************************)
(* The catalog collaborator.  A remote catalog answers a page request for  *)
(* a cursor with a page of entries and the next cursor; a cursor it never  *)
(* issued gets an error.                                                   *)
(***************************************************************************)
Page(servers, next) == [servers |-> servers, next |-> next]

\* the two-page catalog of TestSearchServers_WithCursorIteration
CatalogA ==
    ("" :> Page(<<1, 2>>, "c2")) @@ ("c2" :> Page(<<3>>, ""))

\* a first page larger than a small limit
CatalogB ==
    ("" :> Page(<<3, 1, 2>>, "c2")) @@ ("c2" :> Page(<<4>>, ""))

\* an empty first page, three pages
CatalogC ==
    ("" :> Page(<<>>, "c2")) @@ ("c2" :> Page(<<2, 5>>, "c3"))
        @@ ("c3" :> Page(<<4, 3, 1>>, ""))

\* two pages of LargePageSize entries each
CatalogL ==
    ("" :> Page([i \in 1..LargePageSize |-> i], "c2"))
        @@ ("c2" :> Page([i \in 1..LargePageSize |-> LargePageSize + i], ""))

\* entries of every packaging kind, the better matches on the second page
CatalogD ==
    ("" :> Page(<<7, 1>>, "c2")) @@ ("c2" :> Page(<<5, 6>>, ""))

\* pages without entries whose next cursor never becomes empty: it repeats
CatalogE ==
    ("" :> Page(<<>>, "c2")) @@ ("c2" :> Page(<<>>, "c3"))
        @@ ("c3" :> Page(<<>>, "c2"))

Pages(cat) ==
    CASE cat = "A" -> CatalogA
      [] cat = "B" -> CatalogB
      [] cat = "C" -> CatalogC
      [] cat = "D" -> CatalogD
      [] cat = "E" -> CatalogE
      [] cat = "L" -> CatalogL

RECURSIVE walk(_, _, _)
\* the entries of the pages reached from cursor cur, at most n pages
walk(pages, cur, n) ==
    IF n = 0 \/ cur \notin DOMAIN pages THEN <<>>
    ELSE pages[cur].servers
           \o (IF pages[cur].next = "" THEN <<>>
               ELSE walk(pages, pages[cur].next, n - 1))

\* every entry of the catalog, in listing order
AllEntries(cat) == walk(Pages(cat), "", Cardinality(DOMAIN Pages(cat)))

\* listServersFromAPI, successful answer: the local cache (integrated mode)
\* returns every entry and no next cursor, whatever the query parameters;
\* otherwise the answer is the page of the Registry API.
listServersFromAPI(cat, cache, cur) ==
    IF cache THEN Page(AllEntries(cat), "") ELSE Pages(cat)[cur]

\* whether the collaborator can answer the request at all
canAnswer(cat, cache, cur) == cache \/ cur \in DOMAIN Pages(cat)

(***************************************************************************)
(* State.                                                                  *)
(***************************************************************************)
VARIABLES
    catalog,      \* which catalog the collaborator serves
    localCache,   \* s.localCache != nil (integrated mode)
    pc,           \* "idle", "loop" (at the top of the fetch loop), "done"
    params,       \* the caller's SearchServersParams
    targetLimit,  \* locals of searchServers
    allServers,
    cursor,
    pagesRead,
    truncated,
    elapsed,      \* time.Since(startTime), in seconds
    result,       \* what the call returned
    sent,         \* the cursors of the page requests of this call
    sentAt,       \* elapsed time at which each was sent
    replies,      \* the collaborator's answers to them
    iterStart,    \* the cursor the iteration started from
    received,     \* the entries the client got in this iteration so far
    calls,        \* calls of this iteration
    clean,        \* no page failure and no deadline hit in this iteration
    fn            \* a pure stage applied to an input (SpecFn)

vars ==
    <<catalog, localCache, pc, params, targetLimit, allServers, cursor,
      pagesRead, truncated, elapsed, result, sent, sentAt, replies,
      iterStart, received, calls, clean, fn>>

NoResult ==
    [status |-> "none", servers |-> <<>>, count |-> 0, nextCursor |-> "",
     truncated |-> FALSE, pagesRead |-> 0]

\* IsError: true, text content only
ErrorResult == [NoResult EXCEPT !.status = "error"]

\* the handler did not return: allServers[:targetLimit] out of range
PanicResult == [NoResult EXCEPT !.status = "panic"]

NoFn == [op |-> "none", servers |-> <<>>, params |-> NoParams, out |-> <<>>]

(***************************************************************************)
(* searchServers.                                                          *)
(***************************************************************************)
\* variant: no safety cap
clampLimit_NoCap(limit) == IF limit = 0 THEN DefaultLimit ELSE limit

\* targetLimit := params.Limit; 0 -> 20; > 1000 -> 1000
clampLimit(limit) ==
    LET t == IF limit = 0 THEN DefaultLimit ELSE limit
    IN  IF t > MaxLimit THEN MaxLimit ELSE t

\* variant: a call without a cursor resumes where the previous call stopped
startCursor_Sticky(p, prev) == IF p.Cursor = "" THEN prev ELSE p.Cursor

\* cursor := params.Cursor; prev is the value the previous call left
startCursor(p, prev) == p.Cursor

\* the response: lastNextCursor, filters, sorting, extended metadata
response(all, cur, trunc, pages, p) ==
    LET filtered == applyFilters(all, p)
        sorted == applySorting(filtered, p.SortBy)
    IN  [status |-> "ok", servers |-> sorted, count |-> Len(sorted),
         nextCursor |-> cur, truncated |-> trunc, pagesRead |-> pages]

\* entry of the handler up to the loop
enter(p) ==
    /\ params' = p
    /\ targetLimit' = clampLimit(p.Limit)
    /\ allServers' = <<>>
    /\ cursor' = startCursor(p, cursor)
    /\ pagesRead' = 0
    /\ truncated' = FALSE
    /\ elapsed' = 0
    /\ result' = NoResult
    /\ sent' = <<>>
    /\ sentAt' = <<>>
    /\ replies' = <<>>
    /\ pc' = "loop"
    /\ UNCHANGED <<catalog, localCache, fn>>

\* the handler returns r
return(r) ==
    /\ result' = r
    /\ pc' = "done"
    /\ received' = received \o r.servers

\* variant: the loop has no deadline check
DeadlineExceeded_Never == FALSE /\ UNCHANGED vars

\* if time.Since(startTime) > timeout { truncated = true; break }
DeadlineExceeded ==
    /\ pc = "loop"
    /\ elapsed > Timeout
    /\ truncated' = TRUE
    /\ return(response(allServers, cursor, TRUE, pagesRead, params))
    /\ clean' = FALSE
    /\ UNCHANGED <<catalog, localCache, params, targetLimit, allServers, cursor,
                   pagesRead, elapsed, sent, sentAt, replies, iterStart, calls,
                   fn>>

\* variant: a failed later page ends the iteration
failureResult_NoCursor(all, cur, pages, p) ==
    IF pages = 0
    THEN ErrorResult
    ELSE response(all, "", TRUE, pages, p)

\* variant: a failed page is always a hard error
failureResult_AlwaysError(all, cur, pages, p) == ErrorResult

\* what the call returns when a page request fails after `pages` pages
failureResult(all, cur, pages, p) ==
    IF pages = 0
    THEN ErrorResult
    ELSE response(all, cur, TRUE, pages, p)

\* the page request takes d seconds and fails (err != nil)
PageFailed(d) ==
    /\ pc = "loop"
    /\ elapsed <= Timeout
    /\ sent' = Append(sent, cursor)
    /\ sentAt' = Append(sentAt, elapsed)
    /\ replies' = Append(replies, [ok |-> FALSE, servers |-> <<>>, next |-> ""])
    /\ elapsed' = elapsed + d
    /\ clean' = FALSE
    /\ truncated' = IF pagesRead = 0 THEN truncated ELSE TRUE
    /\ return(failureResult(allServers, cursor, pagesRead, params))
    /\ UNCHANGED <<catalog, localCache, params, targetLimit, allServers, cursor,
                   pagesRead, iterStart, calls, fn>>

\* variant: the accumulated list is one field of the Server, which every
\* request in flight appends to
accumulate_Shared(all, servers, now) ==
    (IF fn.op = "concurrent" THEN fn.requests[1].allServers ELSE all) \o servers

\* variant: a page that arrives after the deadline is dropped
accumulate_Preemptive(all, servers, now) ==
    IF now > Timeout THEN all ELSE all \o servers

\* allServers = append(allServers, page.Servers...); now is the elapsed time
\* when the page arrives
accumulate(all, servers, now) == all \o servers

\* variant: the accumulated list is not trimmed to the target
loopStep_NoTrim(acc, next, limit) ==
    IF Len(acc) >= limit
    THEN [break |-> TRUE, all |-> acc, cursor |-> next]
    ELSE IF next = ""
         THEN [break |-> TRUE, all |-> acc, cursor |-> ""]
         ELSE [break |-> FALSE, all |-> acc, cursor |-> next]

\* variant: an empty next cursor does not end the loop
loopStep_KeepGoing(acc, next, limit) ==
    IF Len(acc) >= limit
    THEN [break |-> TRUE, all |-> SubSeq(acc, 1, limit), cursor |-> next]
    ELSE [break |-> FALSE, all |-> acc, cursor |-> next]

\* the rest of the loop body after accumulating: enough entries, no more
\* pages, or another round
loopStep(acc, next, limit) ==
    IF Len(acc) >= limit
    THEN [break |-> TRUE, all |-> SubSeq(acc, 1, limit), cursor |-> next]
    ELSE IF next = ""
         THEN [break |-> TRUE, all |-> acc, cursor |-> ""]
         ELSE [break |-> FALSE, all |-> acc, cursor |-> next]

\* the page request takes d seconds and succeeds; the rest of the loop body
\* and, when the loop ends, the rest of the handler
PageFetched(d) ==
    /\ pc = "loop"
    /\ elapsed <= Timeout
    /\ canAnswer(catalog, localCache, cursor)
    /\ LET page == listServersFromAPI(catalog, localCache, cursor)
           acc == accumulate(allServers, page.servers, elapsed + d)
           n == pagesRead + 1
           step == loopStep(acc, page.next, targetLimit)
       IN  /\ sent' = Append(sent, cursor)
           /\ sentAt' = Append(sentAt, elapsed)
           /\ replies' = Append(replies,
                  [ok |-> TRUE, servers |-> page.servers, next |-> page.next])
           /\ elapsed' = elapsed + d
           /\ pagesRead' = n
           /\ IF Len(acc) >= targetLimit /\ targetLimit < 0
              THEN \* allServers[:targetLimit] panics: slice bounds out of range
                   /\ allServers' = acc
                   /\ UNCHANGED cursor
                   /\ return(PanicResult)
              ELSE /\ allServers' = step.all
                   /\ cursor' = step.cursor
                   /\ IF step.break
                      THEN return(response(step.all, step.cursor, truncated, n, params))
                      ELSE UNCHANGED <<pc, result, received>>
    /\ UNCHANGED <<catalog, localCache, params, targetLimit, truncated,
                   iterStart, calls, clean, fn>>

(***************************************************************************)
(* The caller.                                                             *)
(***************************************************************************)
\* seconds a page request may take
Latencies == {1, 13, 26}

FilterShapes ==
    { [NoParams EXCEPT !.Name = <<80>>],                                 \* "P"
      [NoParams EXCEPT !.Query = <<68, 66>>],                            \* "DB"
      [NoParams EXCEPT !.Query = <<81, 117, 101, 114>>],                 \* "Quer"
      [NoParams EXCEPT !.Tags = << <<68, 66>> >>],                       \* "DB"
      [NoParams EXCEPT !.Tags = << <<115, 113, 108>>, <<68, 66>> >>],    \* "sql","DB"
      [NoParams EXCEPT !.Tools = << <<113, 117, 101>> >>],               \* "que"
      [NoParams EXCEPT !.Tools = << <<81, 85, 69>>, <<101, 120>> >>],    \* "QUE","ex"
      [NoParams EXCEPT !.Transport = <<83, 84, 68, 73, 79>>],            \* "STDIO"
      [NoParams EXCEPT !.RegistryType = <<78, 80, 77>>],                 \* "NPM"
      [NoParams EXCEPT !.MinStars = 5],
      [NoParams EXCEPT !.MinPulls = 3],
      [NoParams EXCEPT !.Tier = <<111, 102, 102, 105, 99, 105, 97, 108>>], \* "official"
      [NoParams EXCEPT !.Status = <<65, 67, 84, 73, 86, 69>>],           \* "ACTIVE"
      [NoParams EXCEPT !.Tags = << <<100, 98>> >>, !.MinStars = 5,
                       !.Transport = <<115, 116, 100, 105, 111>>] }      \* "db", "stdio"

SortKeys == {"", "stars", "pulls", "name", "updated_at", "rating"}

SortShapes ==
    {[NoParams EXCEPT !.SortBy = k] : k \in SortKeys}
        \cup {[NoParams EXCEPT !.Tags = << <<100, 98>> >>, !.SortBy = "name"],
              [NoParams EXCEPT !.MinPulls = 3, !.SortBy = "stars"]}

Limits == {-1, 0, 1, 2, 3, MaxLimit + 1}

Cursors == {"", "c2", "zz"}

SearchRequests ==
    {[s EXCEPT !.Limit = l, !.Cursor = c] :
        s \in FilterShapes \cup SortShapes, l \in Limits, c \in Cursors}

LargeRequests ==
    {[s EXCEPT !.Limit = l, !.Cursor = c] :
        s \in {NoParams, [NoParams EXCEPT !.Tags = << <<68, 66>> >>]},
        l \in {0, 2, MaxLimit, MaxLimit + 1, 2 * MaxLimit},
        c \in {"", "c2"}}

RequestsFor(cat) == IF cat = "L" THEN LargeRequests ELSE SearchRequests

\* the requests a caller may follow a finished iteration with
FollowUpRequests == {[NoParams EXCEPT !.Limit = l] : l \in {0, 2}}

\* a caller starts an iteration with a request of its own
Search(p) ==
    /\ fn = NoFn
    /\ enter(p)
    /\ iterStart' = p.Cursor
    /\ received' = <<>>
    /\ calls' = 1
    /\ clean' = TRUE

\* the caller repeats its request with the nextCursor it was given
ContinueIteration ==
    /\ pc = "done"
    /\ result.status = "ok"
    /\ result.nextCursor # ""
    /\ calls < MaxCalls
    /\ enter([params EXCEPT !.Cursor = result.nextCursor])
    /\ calls' = calls + 1
    /\ UNCHANGED <<iterStart, received, clean>>

InitCommon ==
    /\ pc = "idle"
    /\ params = NoParams
    /\ targetLimit = 0
    /\ allServers = <<>>
    /\ cursor = ""
    /\ pagesRead = 0
    /\ truncated = FALSE
    /\ elapsed = 0
    /\ result = NoResult
    /\ sent = <<>>
    /\ sentAt = <<>>
    /\ replies = <<>>
    /\ iterStart = ""
    /\ received = <<>>
    /\ calls = 0
    /\ clean = TRUE

Init ==
    /\ catalog \in {"A", "B", "C"}
    /\ localCache \in BOOLEAN
    /\ fn = NoFn
    /\ InitCommon

Next ==
    \/ pc = "idle" /\ \E p \in RequestsFor(catalog) : Search(p)
    \/ pc = "done" /\ \E p \in FollowUpRequests : Search(p)
    \/ ContinueIteration
    \/ DeadlineExceeded
    \/ \E d \in Latencies : PageFailed(d)
    \/ \E d \in Latencies : PageFetched(d)

Spec == Init /\ [][Next]_vars

\* the same server in front of the large catalog
InitLarge ==
    /\ catalog = "L"
    /\ localCache \in BOOLEAN
    /\ fn = NoFn
    /\ InitCommon

SpecLarge == InitLarge /\ [][Next]_vars

(***************************************************************************)
(* The pure stages on their own: a filter or a sort applied to an entry    *)
(* list and parameters drawn from bounded sets.                            *)
(***************************************************************************)
EntryLists == UNION {[1..n -> 1..NumServers] : n \in 0..MaxListLen}

StageParams == FilterShapes \cup SortShapes

\* entry lists one longer than insertion sort alone handles: two entries
\* alternate, and a third stands at one position
LongLists ==
    {[i \in 1..(maxInsertion + 1) |->
          IF i = k THEN a ELSE IF i % 2 = 0 THEN b ELSE c] :
       k \in 1..(maxInsertion + 1), a \in {1, 2, 3, 5}, b \in {1, 2, 3, 5},
       c \in {1, 2, 3, 5}}

InitFn ==
    /\ catalog = "A"
    /\ localCache = FALSE
    /\ InitCommon
    /\ fn \in {[op |-> "none", servers |-> s, params |-> p, out |-> <<>>] :
                 s \in EntryLists, p \in StageParams}
           \cup {[op |-> "none", servers |-> s, params |-> p, out |-> <<>>] :
                    s \in LongLists, p \in SortShapes}

ApplyFilters ==
    /\ fn.op = "none"
    /\ fn' = [fn EXCEPT !.op = "applyFilters",
                        !.out = applyFilters(fn.servers, fn.params)]
    /\ UNCHANGED <<catalog, localCache, pc, params, targetLimit, allServers,
                   cursor, pagesRead, truncated, elapsed, result, sent, sentAt,
                   replies, iterStart, received, calls, clean>>

ApplySorting ==
    /\ fn.op = "none"
    /\ fn' = [fn EXCEPT !.op = "applySorting",
                        !.out = applySorting(fn.servers, fn.params.SortBy)]
    /\ UNCHANGED <<catalog, localCache, pc, params, targetLimit, allServers,
                   cursor, pagesRead, truncated, elapsed, result, sent, sentAt,
                   replies, iterStart, received, calls, clean>>

NextFn == ApplyFilters \/ ApplySorting

SpecFn == InitFn /\ [][NextFn]_vars

(***************************************************************************)
(* What the collaborator saw and answered in the current call.             *)
(***************************************************************************)
RECURSIVE concatServers(_)
concatServers(rs) ==
    IF rs = <<>> THEN <<>> ELSE rs[1].servers \o concatServers(Tail(rs))

\* the entries of every page answered in this call, in fetch order
FetchedAll == concatServers(replies)

AllRepliesOk == \A i \in DOMAIN replies : replies[i].ok

LastReply == replies[Len(replies)]

LastRequestFailed == replies # <<>> /\ ~LastReply.ok

OkCount == Cardinality({i \in DOMAIN replies : replies[i].ok})

\* the filtered and sorted list the handler builds from an accumulated list
Served(all) == applySorting(applyFilters(all, params), params.SortBy)

(***************************************************************************)
(* C1.  When a page request fails: with no page fetched so far the call    *)
(* returns an error result without entries; with at least one page fetched *)
(* it returns, without error, everything accumulated from the pages        *)
(* fetched so far, with truncated = true.                                  *)
(***************************************************************************)
C1_PageFailure ==
    (pc = "done" /\ LastRequestFailed) =>
        IF OkCount = 0
        THEN result.status = "error" /\ result.servers = <<>>
        ELSE /\ result.status = "ok"
             /\ result.truncated
             /\ allServers = FetchedAll
             /\ result.servers = Served(FetchedAll)
             /\ result.pagesRead = OkCount

C1_Witness ==
    /\ pc = "done"
    /\ LastRequestFailed
    /\ OkCount = 2
    /\ result.truncated
    /\ Len(result.servers) = 2

(***************************************************************************)
(* C2.  When the accumulated entries reach the target count after page k   *)
(* (no failure, no deadline hit), the accumulated list is the first        *)
(* targetCount fetched entries in fetch order, nextCursor is the cursor    *)
(* returned with page k, pagesRead = k and truncated = false, also when    *)
(* more entries exist.  The target count of the claim is a count: the      *)
(* formula covers targets of at least 1.                                   *)
(***************************************************************************)
C2_TargetReached ==
    (pc = "done" /\ targetLimit >= 1 /\ AllRepliesOk
        /\ Len(FetchedAll) >= targetLimit) =>
        /\ result.status = "ok"
        /\ allServers = [i \in 1..targetLimit |-> FetchedAll[i]]
        /\ result.servers = Served(allServers)
        /\ result.nextCursor = LastReply.next
        /\ result.pagesRead = Len(replies)
        /\ ~result.truncated
        /\ Len(concatServers(SubSeq(replies, 1, Len(replies) - 1))) < targetLimit

C2_Witness ==
    /\ pc = "done"
    /\ AllRepliesOk
    /\ Len(replies) = 2
    /\ targetLimit >= 1
    /\ Len(FetchedAll) > targetLimit
    /\ result.nextCursor # ""
    /\ Len(result.servers) = targetLimit

(***************************************************************************)
(* C3.  The target-count cap is applied only after all filtering: the      *)
(* returned list is the first targetCount entries of the filtered fetched  *)
(* entries, and no fetched entry that satisfies every criterion is dropped *)
(* while fewer than targetCount entries are returned.                      *)
(***************************************************************************)
C3_CapAfterFiltering ==
    (pc = "done" /\ result.status = "ok" /\ targetLimit >= 1) =>
        LET matching == applyFilters(FetchedAll, params)
        IN  /\ params.SortBy = "" =>
                result.servers =
                    SubSeq(matching, 1,
                           IF Len(matching) < targetLimit
                           THEN Len(matching) ELSE targetLimit)
            /\ Len(result.servers) < targetLimit =>
                Range(matching) \subseteq Range(result.servers)

(***************************************************************************)
(* C4.  Cursor iteration is complete: with no filter, no page failure and  *)
(* no deadline hit, a client that starts without a cursor and repeats the  *)
(* call with the returned nextCursor until it is empty has received every  *)
(* catalog entry exactly once.  Stated for the remote, paginated catalog.  *)
(***************************************************************************)
C4_IterationComplete ==
    (/\ pc = "done"
     /\ ~localCache
     /\ result.status = "ok"
     /\ result.nextCursor = ""
     /\ clean
     /\ iterStart = ""
     /\ [params EXCEPT !.Limit = 0, !.Cursor = "", !.SortBy = ""] = NoParams) =>
        LET all == AllEntries(catalog)
        IN  /\ Len(received) = Len(all)
            /\ \A id \in Range(all) :
                   Cardinality({i \in DOMAIN received : received[i] = id}) = 1

(***************************************************************************)
(* C5.  When the collaborator returns an empty cursor before the target    *)
(* count is reached, the loop stops with every entry of every fetched page *)
(* accumulated in fetch order, nextCursor empty and truncated = false.     *)
(***************************************************************************)
C5_CatalogExhausted ==
    (replies # <<>> /\ AllRepliesOk /\ LastReply.next = ""
        /\ Len(FetchedAll) < targetLimit) =>
        /\ pc = "done"
        /\ result.status = "ok"
        /\ allServers = FetchedAll
        /\ result.servers = Served(FetchedAll)
        /\ result.nextCursor = ""
        /\ ~result.truncated
        /\ result.pagesRead = Len(replies)

C5_Witness ==
    /\ pc = "done"
    /\ AllRepliesOk
    /\ Len(replies) = 3
    /\ LastReply.next = ""
    /\ Len(FetchedAll) < targetLimit
    /\ Len(result.servers) = 5

(***************************************************************************)
(* C6.  The deadline is cooperative: it is evaluated only before a page    *)
(* request.  No request is issued once the elapsed time is above the       *)
(* deadline; a page that was requested is accumulated however long it      *)
(* took; when the check finds the deadline exceeded the call returns       *)
(* truncated = true with everything accumulated and, as nextCursor, the    *)
(* cursor of the page that was not requested.                              *)
(***************************************************************************)
DeadlineHit ==
    /\ pc = "done"
    /\ elapsed > Timeout
    /\ replies # <<>>
    /\ AllRepliesOk
    /\ Len(FetchedAll) < targetLimit
    /\ LastReply.next # ""

C6_CooperativeDeadline ==
    /\ \A i \in DOMAIN sentAt : sentAt[i] <= Timeout
    /\ Len(sent) = Len(replies)
    /\ pc = "loop" => (allServers = FetchedAll /\ pagesRead = Len(replies))
    /\ (pc = "done" /\ AllRepliesOk /\ result.status = "ok") =>
           \/ allServers = FetchedAll
           \/ /\ targetLimit \in 0..Len(FetchedAll)
              /\ allServers = SubSeq(FetchedAll, 1, targetLimit)
    /\ DeadlineHit =>
           /\ result.status = "ok"
           /\ result.truncated
           /\ allServers = FetchedAll
           /\ result.servers = Served(FetchedAll)
           /\ result.pagesRead = Len(replies)
           /\ result.nextCursor = LastReply.next
    /\ (pc = "done" /\ result.truncated /\ ~LastRequestFailed) => elapsed > Timeout

C6_Witness ==
    /\ DeadlineHit
    /\ Len(replies) = 2
    /\ sentAt[2] <= Timeout
    /\ result.truncated
    /\ Len(result.servers) = 2
    /\ result.nextCursor = "c3"

(***************************************************************************)
(* C7.  The caller's limit is clamped: an omitted (zero) limit gives a     *)
(* target of 20, a limit above 1000 gives 1000, and no response holds more *)
(* than 1000 entries.                                                      *)
(***************************************************************************)
C7_LimitClamped ==
    /\ (pc # "idle" /\ params.Limit = 0) => targetLimit = 20
    /\ (pc # "idle" /\ params.Limit > 1000) => targetLimit = 1000
    /\ Len(result.servers) <= 1000
    /\ (pc = "done" /\ AllRepliesOk /\ params.Limit = 0
          /\ Len(FetchedAll) >= 20) => Len(allServers) = 20

C7_Witness ==
    /\ pc = "done"
    /\ params.Limit > 1000
    /\ Len(FetchedAll) > 1000
    /\ Len(result.servers) = 1000

(***************************************************************************)
(* C8.  Cursors are only forwarded verbatim: the first request of a call   *)
(* carries the caller's start cursor, every later one the cursor returned  *)
(* by the page before it; the nextCursor returned is the start cursor, a   *)
(* cursor the collaborator returned in this call, or empty.  Nothing is    *)
(* carried over from an earlier call.                                      *)
(***************************************************************************)
C8_CursorsVerbatim ==
    /\ \A i \in DOMAIN sent :
           sent[i] = IF i = 1 THEN params.Cursor ELSE replies[i - 1].next
    /\ pc = "loop" =>
           cursor = IF replies = <<>> THEN params.Cursor ELSE LastReply.next
    /\ result.nextCursor \in
           {params.Cursor, ""} \cup {replies[i].next : i \in DOMAIN replies}

C8_Witness ==
    /\ pc = "done"
    /\ calls = 1
    /\ iterStart = ""
    /\ Len(sent) = 3
    /\ sent[3] = "c3"
    /\ result.nextCursor = "c3"

(***************************************************************************)
(* The filter criteria as the interface describes them, one predicate per  *)
(* criterion.                                                              *)
(***************************************************************************)
Criteria ==
    {"name", "query", "tags", "tools", "transport", "registry_type",
     "min_stars", "min_pulls", "tier", "status"}

IsActive(c, p) ==
    CASE c = "name" -> p.Name # <<>>
      [] c = "query" -> p.Query # <<>>
      [] c = "tags" -> p.Tags # <<>>
      [] c = "tools" -> p.Tools # <<>>
      [] c = "transport" -> p.Transport # <<>>
      [] c = "registry_type" -> p.RegistryType # <<>>
      [] c = "min_stars" -> p.MinStars # 0
      [] c = "min_pulls" -> p.MinPulls # 0
      [] c = "tier" -> p.Tier # <<>>
      [] c = "status" -> p.Status # <<>>

BlockOf(e) == IF e.meta = <<>> THEN NoBlock ELSE e.meta[1]

OrZero(opt) == IF opt = <<>> THEN 0 ELSE opt[1]

\* sub is an infix of s, letter case ignored
InfixFold(s, sub) ==
    \E i \in 0..Len(s), j \in 0..Len(s) :
        SubSeq(ToLower(s), i + 1, j) = ToLower(sub)

SameFold(a, b) ==
    /\ Len(a) = Len(b)
    /\ \A i \in DOMAIN a : ToLowerByte(a[i]) = ToLowerByte(b[i])

Holds(c, e, p) ==
    CASE c = "name" -> InfixFold(e.name, p.Name)
      [] c = "query" ->
            \/ InfixFold(e.name, p.Query)
            \/ InfixFold(e.description, p.Query)
            \/ \E u \in Range(BlockOf(e).tools) : InfixFold(u, p.Query)
      [] c = "tags" ->
            \A w \in Range(p.Tags) :
                \E u \in Range(BlockOf(e).tags) : SameFold(u, w)
      [] c = "tools" ->
            \A w \in Range(p.Tools) :
                \E u \in Range(BlockOf(e).tools) : InfixFold(u, w)
      [] c = "transport" ->
            \E k \in Range(e.packages) : SameFold(k.transport, p.Transport)
      [] c = "registry_type" ->
            \E k \in Range(e.packages) : SameFold(k.registryType, p.RegistryType)
      [] c = "min_stars" -> OrZero(BlockOf(e).stars) >= p.MinStars
      [] c = "min_pulls" -> OrZero(BlockOf(e).pulls) >= p.MinPulls
      [] c = "tier" ->
            \E u \in Range(BlockOf(e).tier) : SameFold(u, p.Tier)
      [] c = "status" ->
            \E u \in Range(BlockOf(e).status) : SameFold(u, p.Status)

Satisfies(e, p) == \A c \in Criteria : IsActive(c, p) => Holds(c, e, p)

\* the k-th smallest member of the index set I
KthOf(I, k) == CHOOSE i \in I : Cardinality({j \in I : j <= i}) = k

(***************************************************************************)
(* C9.  applyFilters returns exactly the subsequence of its input made of  *)
(* the entries that satisfy every non-empty criterion: it removes entries  *)
(* only, keeps their order, duplicates none, and with no criterion given   *)
(* returns its input.                                                      *)
(***************************************************************************)
C9_FilterIsConjunction ==
    fn.op = "applyFilters" =>
        LET in == fn.servers
            out == fn.out
            keep == {i \in DOMAIN in : Satisfies(Server(in[i]), fn.params)}
        IN  /\ Len(out) = Cardinality(keep)
            /\ \A k \in DOMAIN out : out[k] = in[KthOf(keep, k)]
            /\ (\A c \in Criteria : ~IsActive(c, fn.params)) => out = in

C9_Witness ==
    /\ fn.op = "applyFilters"
    /\ Cardinality({c \in Criteria : IsActive(c, fn.params)}) = 3
    /\ fn.servers = <<5, 1, 2>>
    /\ fn.out = <<1>>

(***************************************************************************)
(* C10.  applySorting returns a permutation of its input, ordered by       *)
(* non-increasing stars for "stars", by non-increasing pulls for "pulls"   *)
(* (an absent metric counts as 0), by non-decreasing name for "name"; for  *)
(* an absent or unrecognized key the output is the input.                  *)
(***************************************************************************)
Occurrences(s, id) == Cardinality({i \in DOMAIN s : s[i] = id})

C10_SortOrdered ==
    fn.op = "applySorting" =>
        LET in == fn.servers
            out == fn.out
            key == fn.params.SortBy
            stars(id) == OrZero(BlockOf(Server(id)).stars)
            pulls(id) == OrZero(BlockOf(Server(id)).pulls)
            name(id) == Server(id).name
        IN  /\ Len(out) = Len(in)
            /\ \A id \in 1..NumServers : Occurrences(out, id) = Occurrences(in, id)
            /\ key = "stars" =>
                   \A i, j \in DOMAIN out : i < j => stars(out[i]) >= stars(out[j])
            /\ key = "pulls" =>
                   \A i, j \in DOMAIN out : i < j => pulls(out[i]) >= pulls(out[j])
            /\ key = "name" =>
                   \A i, j \in DOMAIN out :
                       i < j => ~StrLess(name(out[j]), name(out[i]))
            /\ key \notin {"stars", "pulls", "name", "updated_at"} => out = in

C10_Witness ==
    /\ fn.op = "applySorting"
    /\ fn.params.SortBy = "pulls"
    /\ fn.servers = <<2, 1, 3>>
    /\ fn.out = <<3, 1, 2>>

(***************************************************************************)
(* C11.  For the sort key "updated_at", applySorting orders the entries by *)
(* descending last-updated timestamp: no entry of the output stands before *)
(* an entry that was updated later.                                        *)
(***************************************************************************)
C11_UpdatedAtDescending ==
    (fn.op = "applySorting" /\ fn.params.SortBy = "updated_at") =>
        \A i, j \in DOMAIN fn.out :
            i < j => ~StrLess(extractLastUpdated(Server(fn.out[i])),
                              extractLastUpdated(Server(fn.out[j])))

(***************************************************************************)
(* C12.  The sort stage is stable: for every sort key, the entries that    *)
(* share a key value stand in the output in the order they had in the      *)
(* input.                                                                  *)
(***************************************************************************)
\* the value applySorting orders entry id by
SortKeyOf(sortBy, id) ==
    CASE sortBy = "stars" -> OrZero(BlockOf(Server(id)).stars)
      [] sortBy = "pulls" -> OrZero(BlockOf(Server(id)).pulls)
      [] sortBy = "name" -> Server(id).name
      [] sortBy = "updated_at" -> extractLastUpdated(Server(id))
      [] OTHER -> 0

\* the entries of s whose key value is that of entry x, in their order
WithKeyOf(s, sortBy, x) ==
    SelectSeq(s, LAMBDA id : SortKeyOf(sortBy, id) = SortKeyOf(sortBy, x))

C12_SortStable ==
    fn.op = "applySorting" =>
        \A x \in Range(fn.servers) :
            WithKeyOf(fn.out, fn.params.SortBy, x)
                = WithKeyOf(fn.servers, fn.params.SortBy, x)

(***************************************************************************)
(* The similarity engine.  Scores are float64 values in the code; the      *)
(* model computes them exactly, as fractions in lowest terms.              *)
(***************************************************************************)
RECURSIVE gcd(_, _)
gcd(a, b) == IF b = 0 THEN a ELSE gcd(b, a % b)

\* float64(n) / float64(d), d > 0
Ratio(n, d) == LET g == gcd(n, d) IN [num |-> n \div g, den |-> d \div g]

Zero == Ratio(0, 1)

One == Ratio(1, 1)

Plus(x, y) == Ratio(x.num * y.den + y.num * x.den, x.den * y.den)

Times(x, y) == Ratio(x.num * y.num, x.den * y.den)

Greater(x, y) == x.num * y.den > y.num * x.den

AtLeast(x, y) == x.num * y.den >= y.num * x.den

\* unicode.IsSpace on ASCII text
IsSpace(c) == c \in {9, 10, 11, 12, 13, 32}

RECURSIVE Fields(_)
\* strings.Fields: the maximal runs of non-space characters
Fields(s) ==
    IF s = <<>> THEN <<>>
    ELSE IF IsSpace(s[1]) THEN Fields(Tail(s))
    ELSE LET stops == {i \in DOMAIN s : IsSpace(s[i])}
             end == IF stops = {} THEN Len(s) + 1
                    ELSE CHOOSE i \in stops : \A j \in stops : i <= j
         IN  <<SubSeq(s, 1, end - 1)>> \o Fields(SubSeq(s, end, Len(s)))

scoreTagOverlap(tagsA, tagsB) ==
    IF Len(tagsA) = 0 \/ Len(tagsB) = 0 THEN Zero
    ELSE LET setA == {ToLower(tagsA[i]) : i \in DOMAIN tagsA}
             matches == Cardinality({i \in DOMAIN tagsB : ToLower(tagsB[i]) \in setA})
             union == Len(tagsA) + Len(tagsB) - matches
         IN  IF union = 0 THEN Zero ELSE Ratio(matches, union)

scoreToolOverlap(toolsA, toolsB) ==
    IF Len(toolsA) = 0 \/ Len(toolsB) = 0 THEN Zero
    ELSE LET setA == {ToLower(toolsA[i]) : i \in DOMAIN toolsA}
             matches == Cardinality({i \in DOMAIN toolsB : ToLower(toolsB[i]) \in setA})
             union == Len(toolsA) + Len(toolsB) - matches
         IN  IF union = 0 THEN Zero ELSE Ratio(matches, union)

RECURSIVE countMatches(_, _, _)
\* for _, word := range wordsB { if len(word) > 3 && freqA[word] > 0 { ... } }
countMatches(freqA, wordsB, i) ==
    IF i > Len(wordsB) THEN 0
    ELSE LET word == wordsB[i]
         IN  IF Len(word) > 3 /\ word \in DOMAIN freqA /\ freqA[word] > 0
             THEN 1 + countMatches([freqA EXCEPT ![word] = @ - 1], wordsB, i + 1)
             ELSE countMatches(freqA, wordsB, i + 1)

scoreDescriptionSimilarity(descA, descB) ==
    LET wordsA == Fields(ToLower(descA))
        wordsB == Fields(ToLower(descB))
    IN  IF Len(wordsA) = 0 \/ Len(wordsB) = 0 THEN Zero
        ELSE LET keywords == {w \in Range(wordsA) : Len(w) > 3}
                 freqA == [w \in keywords |->
                              Cardinality({i \in DOMAIN wordsA : wordsA[i] = w})]
                 matches == countMatches(freqA, wordsB, 1)
                 minLen == IF Len(wordsB) < Len(wordsA) THEN Len(wordsB)
                           ELSE Len(wordsA)
             IN  Ratio(matches, minLen)

scoreTransportCompatibility(serverA, serverB) ==
    IF Len(serverA.packages) = 0 \/ Len(serverB.packages) = 0 THEN Ratio(1, 2)
    ELSE IF ToLower(serverA.packages[1].transport)
              = ToLower(serverB.packages[1].transport)
         THEN One
         ELSE Zero

\* (tagScore * 0.4) + (toolScore * 0.4) + (transportScore * 0.1) + (descScore * 0.1)
weightedScore(sourceServer, targetServer) ==
    LET tagScore == scoreTagOverlap(extractTags(sourceServer), extractTags(targetServer))
        toolScore == scoreToolOverlap(extractTools(sourceServer), extractTools(targetServer))
        descScore == scoreDescriptionSimilarity(sourceServer.description,
                                                targetServer.description)
        transportScore == scoreTransportCompatibility(sourceServer, targetServer)
    IN  Plus(Plus(Times(tagScore, Ratio(4, 10)), Times(toolScore, Ratio(4, 10))),
             Plus(Times(transportScore, Ratio(1, 10)), Times(descScore, Ratio(1, 10))))

\* variant: an entry is scored against itself like any other
calculateSimilarityScore_NoSelfCheck(sourceServer, targetServer) ==
    weightedScore(sourceServer, targetServer)

calculateSimilarityScore(sourceServer, targetServer) ==
    IF sourceServer.name = targetServer.name THEN Zero
    ELSE weightedScore(sourceServer, targetServer)

estimateMigrationComplexity(sourceServer, targetServer) ==
    LET sourceTools == extractTools(sourceServer)
        targetTools == extractTools(targetServer)
        toolScore == scoreToolOverlap(sourceTools, targetTools)
    IN  IF Len(sourceTools) = 0 /\ Len(targetTools) = 0 THEN "Low"
        ELSE IF AtLeast(toolScore, Ratio(8, 10)) THEN "Low"
        ELSE IF AtLeast(toolScore, Ratio(5, 10)) THEN "Medium"
        ELSE "High"

(***************************************************************************)
(* The handlers of the similarity tools.  listed is the listing that       *)
(* listServersFromAPI returned; getServerFromAPI looks a name up in the    *)
(* catalog, whose entries are the rows of ServerTable.                     *)
(***************************************************************************)
\* the entry of that name, or none (an error) when the catalog has none
getServerFromAPI(serverName) ==
    LET found == {id \in 1..NumServers : Server(id).name = serverName}
    IN  IF found = {} THEN <<>>
        ELSE <<CHOOSE id \in found : \A other \in found : id <= other>>

\* IsError: true, text content only
ToolError == [status |-> "error", servers |-> <<>>, count |-> 0]

\* the handler did not return: a slice bound out of range
ToolPanic == [status |-> "panic", servers |-> <<>>, count |-> 0]

FindAlternativesDefault == 5

FindAlternativesMax == 20

FindSimilarDefault == 10

FindSimilarMax == 50

\* variant: similarity 0.1 counts as meaningful
meaningful_Inclusive(score) == AtLeast(score, Ratio(1, 10))

\* if score > 0.1
meaningful(score) == Greater(score, Ratio(1, 10))

\* sort.Slice by similarity score descending, then the cut to limit
rankAndLimit(scored, limit) ==
    LET sorted == sortSlice(scored, [a \in Range(scored), b \in Range(scored)
                                         |-> Greater(a.score, b.score)])
    IN  IF Len(sorted) > limit
        THEN IF limit < 0 THEN ToolPanic
             ELSE [status |-> "ok", servers |-> SubSeq(sorted, 1, limit),
                   count |-> limit]
        ELSE [status |-> "ok", servers |-> sorted, count |-> Len(sorted)]

findAlternatives(listed, p) ==
    LET limit == IF p.Limit = 0 THEN FindAlternativesDefault
                 ELSE IF p.Limit > FindAlternativesMax THEN FindAlternativesMax
                 ELSE p.Limit
        found == getServerFromAPI(p.ServerName)
    IN  IF found = <<>> THEN ToolError
        ELSE
        LET sourceServer == Server(found[1])
            scoreOf(id) ==
                [id |-> id,
                 score |-> calculateSimilarityScore(sourceServer, Server(id)),
                 complexity |-> estimateMigrationComplexity(sourceServer, Server(id))]
            candidates == SelectSeq(listed,
                              LAMBDA id : Server(id).name # sourceServer.name)
            scored == [i \in DOMAIN candidates |-> scoreOf(candidates[i])]
            alternatives == SelectSeq(scored, LAMBDA alt : meaningful(alt.score))
        IN  rankAndLimit(alternatives, limit)

\* the score of an entry against the tags and tools of the request
criteriaScore(p, server) ==
    LET tagScore == IF Len(p.Tags) > 0
                    THEN scoreTagOverlap(p.Tags, extractTags(server)) ELSE Zero
        toolScore == IF Len(p.Tools) > 0
                     THEN scoreToolOverlap(p.Tools, extractTools(server)) ELSE Zero
    IN  IF Len(p.Tags) > 0 /\ Len(p.Tools) > 0
        THEN Plus(Times(tagScore, Ratio(5, 10)), Times(toolScore, Ratio(5, 10)))
        ELSE IF Len(p.Tags) > 0 THEN tagScore
        ELSE toolScore

findSimilarServers(listed, p) ==
    LET limit == IF p.Limit = 0 THEN FindSimilarDefault
                 ELSE IF p.Limit > FindSimilarMax THEN FindSimilarMax
                 ELSE p.Limit
        found == IF p.ServerName # <<>> THEN getServerFromAPI(p.ServerName)
                 ELSE <<>>
    IN  IF p.ServerName # <<>> /\ found = <<>> THEN ToolError
        ELSE
        LET considered(id) ==
                IF p.ServerName # <<>>
                THEN Server(id).name # Server(found[1]).name
                ELSE Len(p.Tags) > 0 \/ Len(p.Tools) > 0
            scoreOf(id) ==
                [id |-> id,
                 score |-> IF p.ServerName # <<>>
                           THEN calculateSimilarityScore(Server(found[1]), Server(id))
                           ELSE criteriaScore(p, Server(id))]
            candidates == SelectSeq(listed, considered)
            scored == [i \in DOMAIN candidates |-> scoreOf(candidates[i])]
            similar == SelectSeq(scored, LAMBDA sim : meaningful(sim.score))
        IN  rankAndLimit(similar, limit)

RECURSIVE lookupAll(_, _)
\* for _, name := range serverNames { getServerFromAPI(name) ... }: the
\* names looked up, and whether every one was found
lookupAll(serverNames, i) ==
    IF i > Len(serverNames) THEN [ok |-> TRUE, lookups |-> <<>>]
    ELSE IF getServerFromAPI(serverNames[i]) = <<>>
         THEN [ok |-> FALSE, lookups |-> <<serverNames[i]>>]
         ELSE LET rest == lookupAll(serverNames, i + 1)
              IN  [rest EXCEPT !.lookups = <<serverNames[i]>> \o @]

AnalyzeMin == 2

AnalyzeMax == 10

\* shared := the tools of toolsB whose lower-cased text is a tool of toolsA
sharedTools(toolsA, toolsB) ==
    LET toolMapA == {ToLower(toolsA[i]) : i \in DOMAIN toolsA}
    IN  Cardinality({i \in DOMAIN toolsB : ToLower(toolsB[i]) \in toolMapA})

\* one OverlapEntry
overlapEntry(serverA, serverB) ==
    [serverA |-> serverA.name, serverB |-> serverB.name,
     overlap |-> scoreToolOverlap(extractTools(serverA), extractTools(serverB)),
     shared |-> sharedTools(extractTools(serverA), extractTools(serverB))]

RECURSIVE overlapRows(_, _)
\* for i, serverA := range servers { for j, serverB := range servers {
\* if i < j { append } } }: the rows from i on, in that order
overlapRows(servers, i) ==
    IF i >= Len(servers) THEN <<>>
    ELSE [k \in 1..(Len(servers) - i) |->
              overlapEntry(Server(servers[i]), Server(servers[i + k]))]
           \o overlapRows(servers, i + 1)

RECURSIVE sumOverlap(_, _, _)
\* sum := 0.0; for _, entry := range overlapMatrix { sum += entry.Overlap }
sumOverlap(matrix, i, sum) ==
    IF i > Len(matrix) \/ sum.den = 0 THEN sum
    ELSE sumOverlap(matrix, i + 1, Plus(sum, matrix[i].overlap))

\* variant: the mean is taken over the number of servers
avgOverlap_PerServer(matrix, n) ==
    IF Len(matrix) > 0 THEN Times(sumOverlap(matrix, 1, Zero), Ratio(1, n)) ELSE Zero

\* response.Summary.AvgOverlap; n is the number of servers
avgOverlap(matrix, n) ==
    IF Len(matrix) > 0
    THEN Times(sumOverlap(matrix, 1, Zero), Ratio(1, Len(matrix)))
    ELSE Zero

\* the first insight
overlapInsight(avg) ==
    IF Greater(avg, Ratio(7, 10)) THEN "High overlap detected"
    ELSE IF Greater(Ratio(3, 10), avg) THEN "Low overlap detected"
    ELSE "Moderate overlap"

\* the tools of servers[i] that no server of another name has, when asked for
uniqueTools(servers, i, showUnique) ==
    IF ~showUnique THEN <<>>
    ELSE SelectSeq(extractTools(Server(servers[i])),
             LAMBDA tool :
                 \A k \in DOMAIN servers :
                     Server(servers[k]).name # Server(servers[i]).name =>
                         ToLower(tool) \notin
                             {ToLower(t) : t \in Range(extractTools(Server(servers[k])))})

\* the outcome of analyzeToolOverlap and the lookups it issued
analyzeToolOverlap(serverNames, showUnique) ==
    IF Len(serverNames) < AnalyzeMin \/ Len(serverNames) > AnalyzeMax
    THEN [status |-> "error", lookups |-> <<>>]
    ELSE LET fetched == lookupAll(serverNames, 1)
         IN  IF ~fetched.ok
             THEN [status |-> "error", lookups |-> fetched.lookups]
             ELSE
             LET servers == [i \in DOMAIN serverNames |->
                                getServerFromAPI(serverNames[i])[1]]
                 allTools == UNION {Range(extractTools(Server(servers[i]))) :
                                      i \in DOMAIN servers}
                 unsorted == overlapRows(servers, 1)
                 overlapMatrix ==
                     sortSlice(unsorted,
                               [a \in Range(unsorted), b \in Range(unsorted) |->
                                    Greater(a.overlap, b.overlap)])
                 avg == avgOverlap(overlapMatrix, Len(servers))
             IN  [status |-> "ok", lookups |-> fetched.lookups,
                  servers |-> [i \in DOMAIN servers |->
                                  [serverName |-> Server(servers[i]).name,
                                   totalTools |-> Len(extractTools(Server(servers[i]))),
                                   uniqueTools |-> uniqueTools(servers, i, showUnique)]],
                  overlapMatrix |-> overlapMatrix,
                  totalServers |-> Len(servers),
                  totalUniqueTools |-> Cardinality(allTools),
                  avgOverlap |-> avg,
                  insight |-> overlapInsight(avg),
                  highest |-> IF Len(overlapMatrix) > 0
                              THEN <<overlapMatrix[1]>> ELSE <<>>]

\* the outcome of compareServers and the lookups it issued
compareServers(serverNames) ==
    LET fetched == lookupAll(serverNames, 1)
    IN  [status |-> IF fetched.ok THEN "ok" ELSE "error",
         lookups |-> fetched.lookups]

(***************************************************************************)
(* getEcosystemInsights.                                                   *)
(***************************************************************************)
registryTypeUnknown == <<117, 110, 107, 110, 111, 119, 110>>          \* "unknown"

\* pkg.RunTimeHint, "" when the package declares none
RunTimeHint(pkg) ==
    IF "runtimeHint" \in DOMAIN pkg THEN pkg.runtimeHint ELSE <<>>

detectRuntime(server) ==
    IF Len(server.packages) = 0 THEN registryTypeUnknown
    ELSE LET pkg == server.packages[1]
         IN  CASE pkg.registryType = <<110, 112, 109>>                \* "npm"
                      -> <<110, 111, 100, 101>>                       \* "node"
               [] pkg.registryType = <<112, 121, 112, 105>>           \* "pypi"
                      -> <<112, 121, 116, 104, 111, 110>>             \* "python"
               [] pkg.registryType = <<100, 111, 99, 107, 101, 114>>  \* "docker"
                      -> <<100, 111, 99, 107, 101, 114>>
               [] OTHER -> IF RunTimeHint(pkg) # <<>> THEN RunTimeHint(pkg)
                           ELSE registryTypeUnknown

\* a frequency map after freq[x]++ for every element x of every list
frequency(lists) ==
    [x \in UNION {Range(lists[k]) : k \in DOMAIN lists} |->
        Cardinality(UNION {{<<k, i>> : i \in {j \in DOMAIN lists[k] : lists[k][j] = x}} :
                             k \in DOMAIN lists})]

\* getTopN: the items of a frequency map, which Go ranges over in an order
\* of its own choosing, sorted by count descending and cut to n.  Up to
\* maxInsertion items sort.Slice keeps the order of equal counts, so every
\* order with non-increasing counts can come out.
getTopN(freq, n) ==
    LET k == Cardinality(DOMAIN freq)
        orders == {o \in [1..k -> DOMAIN freq] :
                     /\ \A i, j \in 1..k : i # j => o[i] # o[j]
                     /\ \A i \in 1..(k - 1) : freq[o[i]] >= freq[o[i + 1]]}
    IN  IF k > maxInsertion THEN Unmodelled(freq)
        ELSE {[i \in 1..(IF k > n THEN n ELSE k) |->
                  [name |-> o[i], count |-> freq[o[i]]]] : o \in orders}

\* whether some tag of the entry contains the category, in any case
matchesCategory(server, category) ==
    \E i \in DOMAIN extractTags(server) :
        Contains(ToLower(extractTags(server)[i]), ToLower(category))

RECURSIVE totalStars(_, _)
\* totalStars += extractStars(serverResp.Server)
totalStars(filteredServers, i) ==
    IF i > Len(filteredServers) THEN 0
    ELSE extractStars(Server(filteredServers[i])) + totalStars(filteredServers, i + 1)

RECURSIVE totalPulls(_, _)
\* totalPulls += extractPulls(serverResp.Server)
totalPulls(filteredServers, i) ==
    IF i > Len(filteredServers) THEN 0
    ELSE extractPulls(Server(filteredServers[i])) + totalPulls(filteredServers, i + 1)

\* the responses getEcosystemInsights can give on the listing it fetched
getEcosystemInsights(listed, requested) ==
    LET all == <<97, 108, 108>>                                       \* "all"
        category == IF requested = <<>> THEN all ELSE requested
        filteredServers ==
            SelectSeq(listed, LAMBDA id :
                category = all \/ matchesCategory(Server(id), category))
        n == Len(filteredServers)
        entry(k) == Server(filteredServers[k])
        tagFrequency == frequency([k \in 1..n |-> extractTags(entry(k))])
        toolFrequency == frequency([k \in 1..n |-> extractTools(entry(k))])
        transportFrequency ==
            frequency([k \in 1..n |->
                IF Len(entry(k).packages) > 0
                THEN <<entry(k).packages[1].transport>> ELSE <<>>])
        runtimeFrequency ==
            frequency([k \in 1..n |->
                IF Len(entry(k).packages) > 0
                       /\ detectRuntime(entry(k)) # registryTypeUnknown
                THEN <<detectRuntime(entry(k))>> ELSE <<>>])
        first(top) == IF Len(top) > 0 THEN <<top[1]>> ELSE <<>>
    IN  {[status |-> "ok", category |-> category,
          totalServers |-> n,
          totalStars |-> totalStars(filteredServers, 1),
          totalPulls |-> totalPulls(filteredServers, 1),
          avgStars |-> IF n > 0 THEN totalStars(filteredServers, 1) \div n ELSE 0,
          avgPulls |-> IF n > 0 THEN totalPulls(filteredServers, 1) \div n ELSE 0,
          topTags |-> topTags, topTools |-> topTools,
          transports |-> topTransports, runtimes |-> topRuntimes,
          insights |-> first(topTransports) \o first(topRuntimes) \o first(topTags)] :
           topTags \in getTopN(tagFrequency, 10),
           topTools \in getTopN(toolFrequency, 10),
           topTransports \in getTopN(transportFrequency, 5),
           topRuntimes \in getTopN(runtimeFrequency, 5)}

(***************************************************************************)
(* The similarity tools on their own: a scoring function applied to a pair *)
(* of entries, or a handler applied to a listing and a request drawn from  *)
(* bounded sets.                                                           *)
(***************************************************************************)
\* listings one longer than insertion sort alone handles, built as LongLists
LongListings ==
    {[i \in 1..(maxInsertion + 1) |->
          IF i = k THEN a ELSE IF i % 2 = 0 THEN b ELSE c] :
       k \in 1..(maxInsertion + 1), a \in {2, 5, 6}, b \in {2, 5, 6},
       c \in {2, 5, 6}}

\* a listing with more candidates than find_alternatives ever reports
FullListing == [i \in 1..(FindAlternativesMax + 2) |-> 2]

ShortListings == UNION {[1..n -> 1..NumServers] : n \in 0..MaxListingLen}

Listings == ShortListings \cup LongListings \cup {FullListing}

\* names a request may carry: catalog entries and a name the catalog lacks
SourceNames ==
    {Server(1).name, Server(2).name, Server(6).name, <<122, 122>>}        \* "zz"

FindAlternativesRequests ==
    {[ServerName |-> n, Limit |-> l] :
       n \in SourceNames, l \in {-1, 0, 1, 2, FindAlternativesMax + 1}}

FindSimilarServersRequests ==
    {[ServerName |-> n, Tags |-> <<>>, Tools |-> <<>>, Limit |-> l] :
       n \in {Server(1).name, Server(3).name, <<122, 122>>}, l \in {-1, 0, 1}}
    \cup {[ServerName |-> <<>>, Tags |-> t, Tools |-> u, Limit |-> 0] :
            t \in {<<>>, << <<68, 66>> >>},                               \* "DB"
            u \in {<<>>, << <<113, 117, 101, 114, 121>>,                  \* "query"
                            <<114, 101, 97, 100>> >>}}                    \* "read"

\* lists of 0 to AnalyzeMax + 1 names of catalog entries, and one list
\* with a name the catalog lacks
NameLists ==
    {[i \in 1..n |-> Server(i).name] : n \in 0..(AnalyzeMax + 1)}
        \cup {<<Server(1).name, <<122, 122>>, Server(2).name>>}
        \cup {<<Server(a).name, Server(b).name>> : a, b \in 1..NumServers}
        \cup {<<Server(1).name, Server(3).name, Server(5).name>>,
              <<Server(3).name, Server(2).name, Server(1).name>>,
              <<Server(6).name, Server(2).name, Server(1).name, Server(6).name>>}

searchVars ==
    <<catalog, localCache, pc, params, targetLimit, allServers, cursor,
      pagesRead, truncated, elapsed, result, sent, sentAt, replies,
      iterStart, received, calls, clean>>

InitSim ==
    /\ catalog = "A"
    /\ localCache = FALSE
    /\ InitCommon
    /\ fn \in {[op |-> "none", servers |-> s, params |-> NoParams, out |-> <<>>] :
                 s \in Listings}

\* a scoring function takes the two entries of a listing of two
IsPair == fn.op = "none" /\ Len(fn.servers) = 2

ScoreTagOverlap ==
    /\ IsPair
    /\ fn' = [fn EXCEPT !.op = "scoreTagOverlap",
                        !.out = scoreTagOverlap(extractTags(Server(fn.servers[1])),
                                                extractTags(Server(fn.servers[2])))]
    /\ UNCHANGED searchVars

ScoreToolOverlap ==
    /\ IsPair
    /\ fn' = [fn EXCEPT !.op = "scoreToolOverlap",
                        !.out = scoreToolOverlap(extractTools(Server(fn.servers[1])),
                                                 extractTools(Server(fn.servers[2])))]
    /\ UNCHANGED searchVars

ScoreDescriptionSimilarity ==
    /\ IsPair
    /\ fn' = [fn EXCEPT !.op = "scoreDescriptionSimilarity",
                        !.out = scoreDescriptionSimilarity(
                                    Server(fn.servers[1]).description,
                                    Server(fn.servers[2]).description)]
    /\ UNCHANGED searchVars

CalculateSimilarityScore ==
    /\ IsPair
    /\ fn' = [fn EXCEPT !.op = "calculateSimilarityScore",
                        !.out = calculateSimilarityScore(Server(fn.servers[1]),
                                                         Server(fn.servers[2]))]
    /\ UNCHANGED searchVars

EstimateMigrationComplexity ==
    /\ IsPair
    /\ fn' = [fn EXCEPT !.op = "estimateMigrationComplexity",
                        !.out = estimateMigrationComplexity(Server(fn.servers[1]),
                                                            Server(fn.servers[2]))]
    /\ UNCHANGED searchVars

FindAlternatives ==
    /\ fn.op = "none"
    /\ \E p \in FindAlternativesRequests :
           fn' = [fn EXCEPT !.op = "findAlternatives", !.params = p,
                            !.out = findAlternatives(fn.servers, p)]
    /\ UNCHANGED searchVars

FindSimilarServers ==
    /\ fn.op = "none"
    /\ \E p \in FindSimilarServersRequests :
           fn' = [fn EXCEPT !.op = "findSimilarServers", !.params = p,
                            !.out = findSimilarServers(fn.servers, p)]
    /\ UNCHANGED searchVars

\* the comparison handlers read no listing
AnalyzeToolOverlap ==
    /\ fn.op = "none"
    /\ fn.servers = <<>>
    /\ \E names \in NameLists, showUnique \in BOOLEAN :
           fn' = [fn EXCEPT !.op = "analyzeToolOverlap",
                            !.params = [ServerNames |-> names,
                                        ShowUnique |-> showUnique],
                            !.out = analyzeToolOverlap(names, showUnique)]
    /\ UNCHANGED searchVars

CompareServers ==
    /\ fn.op = "none"
    /\ fn.servers = <<>>
    /\ \E names \in NameLists :
           fn' = [fn EXCEPT !.op = "compareServers",
                            !.params = [ServerNames |-> names],
                            !.out = compareServers(names)]
    /\ UNCHANGED searchVars

NextSim ==
    \/ ScoreTagOverlap
    \/ ScoreToolOverlap
    \/ ScoreDescriptionSimilarity
    \/ CalculateSimilarityScore
    \/ EstimateMigrationComplexity
    \/ FindAlternatives
    \/ FindSimilarServers
    \/ AnalyzeToolOverlap
    \/ CompareServers

SpecSim == InitSim /\ [][NextSim]_vars

(***************************************************************************)
(* The tools that read the catalog through listServersFromAPI with empty   *)
(* query parameters, in front of a catalog.                                *)
(***************************************************************************)
Categories == {<<>>, <<100, 98>>, <<70, 73, 76, 69>>, <<122, 122>>}   \* "db","FILE","zz"

InitTools ==
    /\ catalog \in {"A", "B", "C", "D"}
    /\ localCache \in BOOLEAN
    /\ fn = NoFn
    /\ InitCommon

\* the page request of a tool failed: IsError, "failed to fetch servers"
ListingFailed ==
    /\ fn.op = "none"
    /\ \E op \in {"getEcosystemInsights", "findAlternatives", "findSimilarServers"} :
           fn' = [fn EXCEPT !.op = op, !.out = ToolError]
    /\ UNCHANGED searchVars

GetEcosystemInsights ==
    /\ fn.op = "none"
    /\ LET allServers0 == listServersFromAPI(catalog, localCache, "")
       IN  \E category \in Categories :
             \E response0 \in getEcosystemInsights(allServers0.servers, category) :
               fn' = [fn EXCEPT !.op = "getEcosystemInsights",
                                !.servers = allServers0.servers,
                                !.params = [Category |-> category],
                                !.out = response0]
    /\ UNCHANGED searchVars

ToolSourceNames == {Server(1).name, <<122, 122>>}

FindAlternativesInCatalog ==
    /\ fn.op = "none"
    /\ LET allServers0 == listServersFromAPI(catalog, localCache, "")
       IN  \E p \in {r \in FindAlternativesRequests : r.ServerName \in ToolSourceNames} :
               fn' = [fn EXCEPT !.op = "findAlternatives",
                                !.servers = allServers0.servers,
                                !.params = p,
                                !.out = findAlternatives(allServers0.servers, p)]
    /\ UNCHANGED searchVars

FindSimilarServersInCatalog ==
    /\ fn.op = "none"
    /\ LET allServers0 == listServersFromAPI(catalog, localCache, "")
       IN  \E p \in {r \in FindSimilarServersRequests :
                         r.ServerName \in ToolSourceNames \cup {<<>>}} :
               fn' = [fn EXCEPT !.op = "findSimilarServers",
                                !.servers = allServers0.servers,
                                !.params = p,
                                !.out = findSimilarServers(allServers0.servers, p)]
    /\ UNCHANGED searchVars

\* two requests in a row read the metadata of one unchanged entry
ExtractToolHiveMetadata ==
    /\ fn.op \in {"none", "extractToolHiveMetadata"}
    /\ Len(fn.out) < 2
    /\ \E server \in IF fn.op = "none"
                      THEN {Server(1), Server(4), MultiBlockServer}
                      ELSE {fn.servers[1]} :
         \E thMeta \in metadataBlocks(server) :
             fn' = [fn EXCEPT !.op = "extractToolHiveMetadata",
                              !.servers = <<server>>,
                              !.out = Append(fn.out, thMeta)]
    /\ UNCHANGED searchVars

NextTools ==
    \/ ListingFailed
    \/ ExtractToolHiveMetadata
    \/ GetEcosystemInsights
    \/ FindAlternativesInCatalog
    \/ FindSimilarServersInCatalog

SpecTools == InitTools /\ [][NextTools]_vars

(***************************************************************************)
(* Two searchServers calls in flight on one Server.  The Server holds      *)
(* apiClient, localCache and sdkServer, which no handler assigns; all      *)
(* other state of a call is local to it.  The calls interleave at page     *)
(* requests.                                                               *)
(***************************************************************************)
Requesters == {1, 2}

\* the locals of a call, and the outcomes of its page requests so far
NoLocals ==
    [pc |-> "idle", params |-> NoParams, targetLimit |-> 0, allServers |-> <<>>,
     cursor |-> "", pagesRead |-> 0, truncated |-> FALSE, elapsed |-> 0,
     result |-> NoResult, events |-> <<>>]

ConcurrentRequests ==
    {NoParams,
     [NoParams EXCEPT !.Limit = 1],
     [NoParams EXCEPT !.Limit = -1],
     [NoParams EXCEPT !.SortBy = "name", !.Limit = 2],
     [NoParams EXCEPT !.Tags = << <<68, 66>> >>, !.Cursor = "c2"]}       \* "DB"

InitConcurrent ==
    /\ catalog \in {"A", "C"}
    /\ localCache \in BOOLEAN
    /\ fn = [op |-> "concurrent", requests |-> [r \in Requesters |-> NoLocals]]
    /\ InitCommon

\* requester r calls searchServers: the handler up to the loop
SearchBy(r, p) ==
    /\ fn.op = "concurrent"
    /\ fn.requests[r].pc = "idle"
    /\ fn' = [fn EXCEPT !.requests[r] =
                 [NoLocals EXCEPT !.pc = "loop", !.params = p,
                                  !.targetLimit = clampLimit(p.Limit),
                                  !.cursor = startCursor(p, "")]]
    /\ UNCHANGED searchVars

\* the deadline check of r's loop
DeadlineExceededBy(r) ==
    /\ fn.op = "concurrent"
    /\ LET my == fn.requests[r]
       IN  /\ my.pc = "loop"
           /\ my.elapsed > Timeout
           /\ fn' = [fn EXCEPT !.requests[r] =
                        [my EXCEPT !.pc = "done", !.truncated = TRUE,
                                   !.result = response(my.allServers, my.cursor, TRUE,
                                                       my.pagesRead, my.params)]]
    /\ UNCHANGED searchVars

\* r's page request takes d seconds and fails
PageFailedBy(r, d) ==
    /\ fn.op = "concurrent"
    /\ LET my == fn.requests[r]
       IN  /\ my.pc = "loop"
           /\ my.elapsed <= Timeout
           /\ fn' = [fn EXCEPT !.requests[r] =
                        [my EXCEPT !.pc = "done",
                                   !.elapsed = my.elapsed + d,
                                   !.events = Append(my.events, [ok |-> FALSE, d |-> d]),
                                   !.truncated = IF my.pagesRead = 0 THEN @ ELSE TRUE,
                                   !.result = failureResult(my.allServers, my.cursor,
                                                            my.pagesRead, my.params)]]
    /\ UNCHANGED searchVars

\* r's page request takes d seconds and succeeds; the rest of the loop body
\* and, when the loop ends, the rest of the handler
PageFetchedBy(r, d) ==
    /\ fn.op = "concurrent"
    /\ LET my == fn.requests[r]
           page == listServersFromAPI(catalog, localCache, my.cursor)
           acc == accumulate(my.allServers, page.servers, my.elapsed + d)
           n == my.pagesRead + 1
           step == loopStep(acc, page.next, my.targetLimit)
           fetched == [my EXCEPT !.elapsed = my.elapsed + d, !.pagesRead = n,
                                 !.events = Append(my.events, [ok |-> TRUE, d |-> d])]
       IN  /\ my.pc = "loop"
           /\ my.elapsed <= Timeout
           /\ canAnswer(catalog, localCache, my.cursor)
           /\ fn' = [fn EXCEPT !.requests[r] =
                        IF Len(acc) >= my.targetLimit /\ my.targetLimit < 0
                        THEN [fetched EXCEPT !.pc = "done", !.allServers = acc,
                                             !.result = PanicResult]
                        ELSE IF step.break
                        THEN [fetched EXCEPT !.pc = "done", !.allServers = step.all,
                                             !.cursor = step.cursor,
                                             !.result = response(step.all, step.cursor,
                                                            my.truncated, n, my.params)]
                        ELSE [fetched EXCEPT !.allServers = step.all,
                                             !.cursor = step.cursor]]
    /\ UNCHANGED searchVars

NextConcurrent ==
    \/ \E r \in Requesters, p \in ConcurrentRequests : SearchBy(r, p)
    \/ \E r \in Requesters : DeadlineExceededBy(r)
    \/ \E r \in Requesters, d \in Latencies : PageFailedBy(r, d)
    \/ \E r \in Requesters, d \in Latencies : PageFetchedBy(r, d)

SpecConcurrent == InitConcurrent /\ [][NextConcurrent]_vars

(***************************************************************************)
(* One searchServers call in front of a collaborator that answers every    *)
(* page request: each request returns, ok or failed, after at least a      *)
(* second, so the step of the loop that is due is eventually taken.        *)
(***************************************************************************)
LiveRequests == {[NoParams EXCEPT !.Limit = l] : l \in {0, 1, 2}}

InitLive ==
    /\ catalog \in {"A", "C", "E"}
    /\ localCache \in BOOLEAN
    /\ fn = NoFn
    /\ InitCommon

\* one round of the loop: the deadline check, or the page request and the
\* rest of the body
LoopRound ==
    \/ DeadlineExceeded
    \/ \E d \in Latencies : PageFailed(d)
    \/ \E d \in Latencies : PageFetched(d)

NextLive ==
    \/ pc = "idle" /\ \E p \in LiveRequests : Search(p)
    \/ LoopRound

SpecLive == InitLive /\ [][NextLive]_vars /\ WF_vars(LoopRound)

(***************************************************************************)
(* C13.  The composite similarity score of calculateSimilarityScore lies   *)
(* in [0,1] for every pair of entries.                                     *)
(***************************************************************************)
C13_ScoreInUnitInterval ==
    fn.op = "calculateSimilarityScore" =>
        AtLeast(fn.out, Zero) /\ AtLeast(One, fn.out)

(***************************************************************************)
(* C14.  Similarity is symmetric: for entries of different names the score *)
(* of A against B is the score of B against A.                             *)
(***************************************************************************)
C14_ScoreSymmetric ==
    (/\ fn.op = "calculateSimilarityScore"
     /\ Server(fn.servers[1]).name # Server(fn.servers[2]).name) =>
        fn.out = calculateSimilarityScore(Server(fn.servers[2]),
                                          Server(fn.servers[1]))

(***************************************************************************)
(* C15.  An entry is never compared against itself: the score of two       *)
(* entries of the same name is 0, and findAlternatives and                 *)
(* findSimilarServers by reference server report no entry whose name is    *)
(* the source entry's name.                                                *)
(***************************************************************************)
ByReference ==
    /\ fn.op \in {"findAlternatives", "findSimilarServers"}
    /\ fn.params.ServerName # <<>>
    /\ fn.out.status = "ok"

C15_NoSelfComparison ==
    /\ (/\ fn.op = "calculateSimilarityScore"
        /\ Server(fn.servers[1]).name = Server(fn.servers[2]).name) =>
           fn.out = Zero
    /\ ByReference =>
           \A i \in DOMAIN fn.out.servers :
               Server(fn.out.servers[i].id).name # fn.params.ServerName

C15_Witness ==
    /\ fn.op = "findAlternatives"
    /\ fn.params.ServerName = Server(1).name
    /\ fn.servers = <<1, 2>>
    /\ fn.out.status = "ok"
    /\ Len(fn.out.servers) = 1
    /\ fn.out.servers[1].id = 2

(***************************************************************************)
(* C16.  scoreTagOverlap and scoreToolOverlap return the Jaccard index of  *)
(* the two lists taken as sets of case-folded values, and 0 when either    *)
(* list is empty.                                                          *)
(***************************************************************************)
FoldedSet(list) == {ToLower(list[i]) : i \in DOMAIN list}

Jaccard(listA, listB) ==
    IF FoldedSet(listA) = {} \/ FoldedSet(listB) = {} THEN Zero
    ELSE Ratio(Cardinality(FoldedSet(listA) \cap FoldedSet(listB)),
               Cardinality(FoldedSet(listA) \cup FoldedSet(listB)))

C16_OverlapIsJaccard ==
    /\ fn.op = "scoreTagOverlap" =>
           fn.out = Jaccard(BlockOf(Server(fn.servers[1])).tags,
                            BlockOf(Server(fn.servers[2])).tags)
    /\ fn.op = "scoreToolOverlap" =>
           fn.out = Jaccard(BlockOf(Server(fn.servers[1])).tools,
                            BlockOf(Server(fn.servers[2])).tools)

(***************************************************************************)
(* C17.  estimateMigrationComplexity is Low when both entries declare no   *)
(* capability; otherwise Low when the Jaccard similarity of the capability *)
(* lists is at least 0.8, Medium when it is at least 0.5, High otherwise.  *)
(***************************************************************************)
C17_MigrationComplexity ==
    fn.op = "estimateMigrationComplexity" =>
        LET toolsA == BlockOf(Server(fn.servers[1])).tools
            toolsB == BlockOf(Server(fn.servers[2])).tools
            similarity == Jaccard(toolsA, toolsB)
        IN  fn.out = IF toolsA = <<>> /\ toolsB = <<>> THEN "Low"
                     ELSE IF AtLeast(similarity, Ratio(8, 10)) THEN "Low"
                     ELSE IF AtLeast(similarity, Ratio(5, 10)) THEN "Medium"
                     ELSE "High"

(***************************************************************************)
(* C18.  findAlternatives reports only candidates whose score is strictly  *)
(* greater than 0.1, in order of non-increasing score, at most limit of    *)
(* them (5 when the limit is omitted, 20 when it is larger); every         *)
(* candidate that scores higher than a reported one is reported too, and   *)
(* metadata.count is the number reported.                                  *)
(***************************************************************************)
C18_AlternativesRanked ==
    (fn.op = "findAlternatives" /\ fn.out.status = "ok") =>
        LET source == Server(getServerFromAPI(fn.params.ServerName)[1])
            limit == IF fn.params.Limit = 0 THEN 5
                     ELSE IF fn.params.Limit > 20 THEN 20
                     ELSE fn.params.Limit
            reported == fn.out.servers
            reportedIds == [i \in DOMAIN reported |-> reported[i].id]
            scores == [id \in Range(fn.servers) |->
                          calculateSimilarityScore(source, Server(id))]
            scoreOf(id) == scores[id]
            candidates == SelectSeq(fn.servers,
                              LAMBDA id : Greater(scoreOf(id), Ratio(1, 10)))
            above(ids, v) ==
                Cardinality({i \in DOMAIN ids : Greater(scoreOf(ids[i]), v)})
        IN  /\ \A i \in DOMAIN reported :
                   /\ reported[i].score = scoreOf(reported[i].id)
                   /\ Greater(reported[i].score, Ratio(1, 10))
            /\ \A i, j \in DOMAIN reported :
                   i < j => AtLeast(reported[i].score, reported[j].score)
            /\ Len(reported) <= limit
            /\ \A id \in 1..NumServers :
                   Occurrences(reportedIds, id) <= Occurrences(candidates, id)
            /\ Len(candidates) <= limit => Len(reported) = Len(candidates)
            /\ \A i \in DOMAIN reported :
                   above(reportedIds, reported[i].score)
                       = above(candidates, reported[i].score)
            /\ fn.out.count = Len(reported)

C18_Witness ==
    /\ fn.op = "findAlternatives"
    /\ fn.params = [ServerName |-> Server(1).name, Limit |-> 21]
    /\ fn.servers = FullListing
    /\ fn.out.status = "ok"
    /\ fn.out.count = 20

(***************************************************************************)
(* C19.  Ranking ties are stable: in the results of findAlternatives and   *)
(* findSimilarServers the candidates of one score stand in the order they  *)
(* had in the listing.                                                     *)
(***************************************************************************)
RECURSIVE IsSubsequence(_, _)
IsSubsequence(s, t) ==
    \/ s = <<>>
    \/ /\ t # <<>>
       /\ IF Head(s) = Head(t) THEN IsSubsequence(Tail(s), Tail(t))
          ELSE IsSubsequence(s, Tail(t))

C19_TiesStable ==
    (/\ fn.op \in {"findAlternatives", "findSimilarServers"}
     /\ fn.out.status = "ok") =>
        \A r \in Range(fn.out.servers) :
            LET tied == SelectSeq(fn.out.servers, LAMBDA x : x.score = r.score)
                tiedIds == [i \in DOMAIN tied |-> tied[i].id]
            IN  IsSubsequence(tiedIds,
                              SelectSeq(fn.servers, LAMBDA id : id \in Range(tiedIds)))

(***************************************************************************)
(* C20.  A comparison request (analyzeToolOverlap, compareServers) naming  *)
(* fewer than 2 entries or more than the maximum (10 for                   *)
(* analyzeToolOverlap, 5 for compareServers) gets an error result, and no  *)
(* entry lookup is issued for it.                                          *)
(***************************************************************************)
C20_ComparisonSizeChecked ==
    LET names == fn.params.ServerNames
    IN  /\ (/\ fn.op = "analyzeToolOverlap"
            /\ (Len(names) < 2 \/ Len(names) > 10)) =>
               fn.out.status = "error" /\ fn.out.lookups = <<>>
        /\ (/\ fn.op = "compareServers"
            /\ (Len(names) < 2 \/ Len(names) > 5)) =>
               fn.out.status = "error" /\ fn.out.lookups = <<>>

(***************************************************************************)
(* C21.  For a request naming N entries, 2 <= N <= 10, that are all found, *)
(* analyzeToolOverlap reports exactly one overlap-matrix entry for each of *)
(* the N(N-1)/2 unordered pairs of requested entries, carrying the Jaccard *)
(* similarity of the two capability sets and the number of capabilities    *)
(* they share; avgOverlap is the mean of the entries; and when the         *)
(* capability sets are pairwise disjoint every entry is 0 and the insight  *)
(* is the low-overlap (complementary) one.                                 *)
(***************************************************************************)
\* the capability list of the entry called name
ToolsOf(name) == BlockOf(Server(getServerFromAPI(name)[1])).tools

\* the matrix entry the pair of names should get
PairEntry(nameA, nameB) ==
    [serverA |-> nameA, serverB |-> nameB,
     overlap |-> Jaccard(ToolsOf(nameA), ToolsOf(nameB)),
     shared |-> Cardinality(FoldedSet(ToolsOf(nameA)) \cap FoldedSet(ToolsOf(nameB)))]

C21_OverlapMatrix ==
    (fn.op = "analyzeToolOverlap" /\ fn.out.status = "ok") =>
        LET names == fn.params.ServerNames
            n == Len(names)
            m == fn.out.overlapMatrix
            pairs == {pr \in (1..n) \X (1..n) : pr[1] < pr[2]}
            want(pr) == PairEntry(names[pr[1]], names[pr[2]])
        IN  /\ Len(m) = (n * (n - 1)) \div 2
            /\ \A pr \in pairs :
                   Cardinality({k \in DOMAIN m : m[k] = want(pr)})
                       = Cardinality({q \in pairs : want(q) = want(pr)})
            /\ fn.out.avgOverlap
                   = Times(sumOverlap(m, 1, Zero), Ratio(1, Len(m)))
            /\ (\A pr \in pairs :
                    FoldedSet(ToolsOf(names[pr[1]]))
                        \cap FoldedSet(ToolsOf(names[pr[2]])) = {}) =>
                   /\ \A k \in DOMAIN m : m[k].overlap = Zero
                   /\ fn.out.insight = "Low overlap detected"

(***************************************************************************)
(* C22.  The runtime of an entry is a fixed lookup from the packaging kind *)
(* of its first package (npm: node, pypi: python, docker: docker) in which *)
(* every other kind, and an entry without packages, is "unknown"; in the   *)
(* response of getEcosystemInsights an entry whose runtime is "unknown" is *)
(* left out of the runtime table only: the tag, capability and transport   *)
(* tables and the totals count every entry of the category.                *)
(***************************************************************************)
\* the runtime by packaging kind alone
RuntimeByKind(e) ==
    IF e.packages = <<>> THEN registryTypeUnknown
    ELSE LET kind == e.packages[1].registryType
         IN  IF kind = <<110, 112, 109>> THEN <<110, 111, 100, 101>>
             ELSE IF kind = <<112, 121, 112, 105>>
                  THEN <<112, 121, 116, 104, 111, 110>>
             ELSE IF kind = <<100, 111, 99, 107, 101, 114>>
                  THEN <<100, 111, 99, 107, 101, 114>>
             ELSE registryTypeUnknown

\* the count a top-N list gives name, 0 when it has no item for it
CountIn(top, name) ==
    IF \E i \in DOMAIN top : top[i].name = name
    THEN (CHOOSE item \in Range(top) : item.name = name).count
    ELSE 0

\* how many (entry, position) pairs of the lists hold x
TimesListed(lists, x) ==
    Cardinality({pr \in (DOMAIN lists) \X (1..4) :
                    pr[2] \in DOMAIN lists[pr[1]] /\ lists[pr[1]][pr[2]] = x})

C22_UnknownRuntime ==
    (fn.op = "getEcosystemInsights" /\ fn.out.status = "ok") =>
        LET kept == SelectSeq(fn.servers, LAMBDA id :
                        \/ fn.params.Category = <<>>
                        \/ \E t \in Range(BlockOf(Server(id)).tags) :
                               InfixFold(t, fn.params.Category))
            e(k) == Server(kept[k])
            tags == [k \in DOMAIN kept |-> BlockOf(e(k)).tags]
            tools == [k \in DOMAIN kept |-> BlockOf(e(k)).tools]
            transports == [k \in DOMAIN kept |->
                              IF e(k).packages = <<>> THEN <<>>
                              ELSE <<e(k).packages[1].transport>>]
            runtimes == [k \in DOMAIN kept |->
                            IF RuntimeByKind(e(k)) = registryTypeUnknown THEN <<>>
                            ELSE <<RuntimeByKind(e(k))>>]
            agrees(top, lists) ==
                /\ \A x \in UNION {Range(lists[k]) : k \in DOMAIN lists} :
                       CountIn(top, x) = TimesListed(lists, x)
                /\ \A item \in Range(top) : TimesListed(lists, item.name) > 0
        IN  /\ \A id \in Range(fn.servers) :
                   detectRuntime(Server(id)) = RuntimeByKind(Server(id))
            /\ agrees(fn.out.runtimes, runtimes)
            /\ agrees(fn.out.topTags, tags)
            /\ agrees(fn.out.topTools, tools)
            /\ agrees(fn.out.transports, transports)
            /\ fn.out.totalServers = Len(kept)
            /\ fn.out.totalStars
                   = Cardinality({pr \in (DOMAIN kept) \X (1..9) :
                                     pr[2] <= OrZero(BlockOf(e(pr[1])).stars)})
            /\ fn.out.totalPulls
                   = Cardinality({pr \in (DOMAIN kept) \X (1..9) :
                                     pr[2] <= OrZero(BlockOf(e(pr[1])).pulls)})

(***************************************************************************)
(* C23.  Concurrent requests are isolated: when two searchServers calls    *)
(* run interleaved at page-request granularity on one Server against the   *)
(* same unchanged catalog, each returns what it would return running alone *)
(* with the same parameters and the same outcomes of its own page          *)
(* requests; no call reads or writes what another has accumulated.         *)
(***************************************************************************)
\* what a call with parameters p returns when it runs alone and its page
\* requests end as events says
AloneResult(p, events) ==
    LET limit == IF p.Limit = 0 THEN 20 ELSE IF p.Limit > 1000 THEN 1000 ELSE p.Limit
        RECURSIVE run(_, _, _, _, _)
        run(all, cur, pages, time, i) ==
            IF time > 25 THEN response(all, cur, TRUE, pages, p)
            ELSE IF i > Len(events) THEN NoResult
            ELSE IF ~events[i].ok
                 THEN IF pages = 0 THEN ErrorResult
                      ELSE response(all, cur, TRUE, pages, p)
            ELSE LET page == listServersFromAPI(catalog, localCache, cur)
                     got == all \o page.servers
                 IN  IF Len(got) >= limit
                     THEN IF limit < 0 THEN PanicResult
                          ELSE response(SubSeq(got, 1, limit), page.next, FALSE,
                                        pages + 1, p)
                     ELSE IF page.next = ""
                          THEN response(got, "", FALSE, pages + 1, p)
                          ELSE run(got, page.next, pages + 1, time + events[i].d, i + 1)
    IN  run(<<>>, p.Cursor, 0, 0, 1)

C23_RequestsIsolated ==
    fn.op = "concurrent" =>
        \A r \in Requesters :
            fn.requests[r].pc = "done" =>
                fn.requests[r].result
                    = AloneResult(fn.requests[r].params, fn.requests[r].events)

C23_Witness ==
    /\ fn.op = "concurrent"
    /\ catalog = "A" /\ ~localCache
    /\ fn.requests[1].pc = "loop" /\ fn.requests[1].pagesRead = 1
    /\ fn.requests[1].params.Limit = 0
    /\ fn.requests[1].allServers = <<1, 2>>
    /\ fn.requests[2].pc = "done" /\ fn.requests[2].pagesRead = 1
    /\ fn.requests[2].params.SortBy = "name"
    /\ fn.requests[2].result.servers = <<2, 1>>

(***************************************************************************)
(* C24.  The two backends are equivalent for iteration: with no filter, no *)
(* page failure and no deadline hit, a client that starts without a cursor *)
(* and repeats the call with the returned nextCursor until it is empty has *)
(* received every catalog entry exactly once, whether the entries come     *)
(* from the remote paginated endpoint or from the in-process snapshot; and *)
(* when the snapshot holds more entries than the limit, the call returns a *)
(* cursor through which the entries beyond the limit are reached.          *)
(***************************************************************************)
\* a finished call of an iteration from the start, no filter, nothing failed
CleanIterationCall ==
    /\ pc = "done"
    /\ result.status = "ok"
    /\ clean
    /\ iterStart = ""
    /\ [params EXCEPT !.Limit = 0, !.Cursor = "", !.SortBy = ""] = NoParams

C24_BackendEquivalence ==
    /\ (CleanIterationCall /\ result.nextCursor = "") =>
           /\ Len(received) = Len(AllEntries(catalog))
           /\ \A id \in Range(AllEntries(catalog)) :
                  Cardinality({i \in DOMAIN received : received[i] = id}) = 1
    /\ (CleanIterationCall /\ localCache /\ calls = 1
            /\ Len(AllEntries(catalog)) > targetLimit) =>
           result.nextCursor # ""

(***************************************************************************)
(* C25.  There is no retry inside the fetch loop: a failed page request is *)
(* the last request of its call, so a call issues pagesRead requests, or   *)
(* pagesRead + 1 when its last request failed.  When a later page fails,   *)
(* the returned nextCursor is the cursor of the failed request, and the    *)
(* entries accumulated followed by the entries of the pages from that      *)
(* cursor on are the entries of the pages from the call's first cursor on: *)
(* a new call with the returned cursor starts at the first page not        *)
(* accumulated, skipping and repeating nothing.                            *)
(***************************************************************************)
C25_NoRetryResumable ==
    /\ \A i \in DOMAIN replies : ~replies[i].ok => i = Len(replies) /\ pc = "done"
    /\ Len(sent) = pagesRead + (IF LastRequestFailed THEN 1 ELSE 0)
    /\ (pc = "done" /\ LastRequestFailed /\ pagesRead >= 1) =>
           LET pages == Pages(catalog)
               n == Cardinality(DOMAIN pages)
           IN  /\ result.status = "ok"
               /\ result.nextCursor = sent[Len(sent)]
               /\ allServers \o walk(pages, result.nextCursor, n)
                      = walk(pages, sent[1], n)
    /\ (pc = "loop" /\ calls >= 2 /\ sent = <<>>) => cursor = params.Cursor

C25_Witness ==
    /\ pc = "done"
    /\ catalog = "C"
    /\ sent = <<"", "c2", "c3">>
    /\ LastRequestFailed
    /\ pagesRead = 2
    /\ allServers = <<2, 5>>
    /\ result.nextCursor = "c3"

(***************************************************************************)
(* C26.  scoreDescriptionSimilarity returns the number of matched tokens   *)
(* divided by the smaller of the two token counts, where the tokens of a   *)
(* description are its whitespace-separated, lower-cased words of more     *)
(* than 3 characters (shorter words are no tokens and do not count in the  *)
(* denominator) and each token occurrence is matched at most once; it      *)
(* returns 0 when either description has no token, and a value in [0,1].   *)
(***************************************************************************)
Tokens(description) ==
    SelectSeq(Fields(ToLower(description)), LAMBDA w : Len(w) > 3)

\* token occurrences of a matched one to one with token occurrences of b
MatchedTokens(a, b) ==
    Cardinality({pr \in Range(a) \X (1..Len(a)) :
                    /\ pr[2] <= Occurrences(a, pr[1])
                    /\ pr[2] <= Occurrences(b, pr[1])})

C26_DescriptionSimilarity ==
    fn.op = "scoreDescriptionSimilarity" =>
        LET a == Tokens(Server(fn.servers[1]).description)
            b == Tokens(Server(fn.servers[2]).description)
        IN  /\ (a = <<>> \/ b = <<>>) => fn.out = Zero
            /\ (a # <<>> /\ b # <<>>) =>
                   fn.out = Ratio(MatchedTokens(a, b),
                                  IF Len(a) < Len(b) THEN Len(a) ELSE Len(b))
            /\ AtLeast(fn.out, Zero) /\ AtLeast(One, fn.out)

(***************************************************************************)
(* C27.  findAlternatives and findSimilarServers score every entry of the  *)
(* catalog, also when the catalog is served over several pages: the        *)
(* entries they report are the entries they report when given the whole    *)
(* catalog, so a qualifying entry of a second or later page is reported.   *)
(***************************************************************************)
Reported(out) == {out.servers[i].id : i \in DOMAIN out.servers}

C27_EveryPageScored ==
    /\ (fn.op = "findAlternatives" /\ fn.out.status = "ok") =>
           Reported(fn.out)
               = Reported(findAlternatives(AllEntries(catalog), fn.params))
    /\ (fn.op = "findSimilarServers" /\ fn.out.status = "ok") =>
           Reported(fn.out)
               = Reported(findSimilarServers(AllEntries(catalog), fn.params))

(***************************************************************************)
(* C28.  For every integer limit, negative ones included, the effective    *)
(* limit of searchServers, findAlternatives and findSimilarServers after   *)
(* defaulting and clamping is at least 1, so the trimming step never takes *)
(* a slice out of range and the call completes with a well-formed result.  *)
(***************************************************************************)
C28_EffectiveLimitPositive ==
    /\ pc # "idle" => targetLimit >= 1
    /\ result.status # "panic"
    /\ fn.op \in {"findAlternatives", "findSimilarServers"} =>
           fn.out.status # "panic"

(***************************************************************************)
(* C29.  The fetch loop always terminates, whatever the collaborator       *)
(* answers (pages without entries and a next cursor that never becomes     *)
(* empty included), provided every page request returns and time advances  *)
(* with every request: a call that entered the loop returns, and it leaves *)
(* the loop because the target count is reached, the next cursor is empty, *)
(* a page request failed, or the 25-second deadline has passed.            *)
(***************************************************************************)
C29_LoopTerminates ==
    /\ (pc = "loop") ~> (pc = "done")
    /\ [](pc = "done" =>
            \/ Len(FetchedAll) >= targetLimit
            \/ (replies # <<>> /\ LastReply.ok /\ LastReply.next = "")
            \/ LastRequestFailed
            \/ elapsed > Timeout)

C29_Witness ==
    /\ pc = "done"
    /\ catalog = "E" /\ ~localCache
    /\ AllRepliesOk
    /\ pagesRead = 26
    /\ elapsed = 26
    /\ result.truncated
    /\ result.servers = <<>>
    /\ result.nextCursor = "c3"

(***************************************************************************)
(* C30.  extractToolHiveMetadata is deterministic for an unchanged entry,  *)
(* also for an entry with more than one provider namespace or package      *)
(* block: two requests in a row get the same block, and with it the same   *)
(* stars, pulls, tags and tools, so every filter decision, sort position   *)
(* and similarity score derived from them is the same.                     *)
(***************************************************************************)
C30_MetadataDeterministic ==
    (fn.op = "extractToolHiveMetadata" /\ Len(fn.out) = 2) =>
        /\ fn.out[1] = fn.out[2]
        /\ OrZero(fn.out[1].stars) = OrZero(fn.out[2].stars)
        /\ OrZero(fn.out[1].pulls) = OrZero(fn.out[2].pulls)
        /\ fn.out[1].tags = fn.out[2].tags
        /\ fn.out[1].tools = fn.out[2].tools

=============================================================================
